---- MODULE Spec2Model ----
(***************************************************************************)
(* Response-caching overlay of the task management service:                *)
(* CacheMiddleware (key builder, pattern builder, invalidation, handler),  *)
(* the RedisCache store wrapper it talks to, and the handler chain that    *)
(* main assembles around it.                                               *)
(*                                                                         *)
(* Text is modelled as a sequence of symbols.  A symbol is an abstract     *)
(* run of characters that no operation of the program splits ("tasks",     *)
(* "v1", "u1", ...); the separators the program splits or joins on ("/",   *)
(* ":", "&", "=") and the glob wildcard "*" are symbols of their own.      *)
(* Byte payloads (response bodies) are sequences of integers 0..255.       *)
(***************************************************************************)
EXTENDS Integers, Sequences, FiniteSets, TLC

----------------------------------------------------------------------------
(* Bounds of the model                                                     *)

\* Number of request slots (goroutines serving a request at the same time).
NumProcs == 2

----------------------------------------------------------------------------
(* strings package                                                         *)

EmptyStr == <<>>

RECURSIVE TrimLeft(_, _)
TrimLeft(s, c) ==
    IF s # <<>> /\ Head(s) = c THEN TrimLeft(Tail(s), c) ELSE s

RECURSIVE TrimRight(_, _)
TrimRight(s, c) ==
    IF s # <<>> /\ s[Len(s)] = c THEN TrimRight(SubSeq(s, 1, Len(s) - 1), c) ELSE s

\* strings.Trim(s, cutset) for a one-character cutset
Trim(s, c) == TrimRight(TrimLeft(s, c), c)

\* strings.Split(s, sep) for a one-character separator: always at least one
\* (possibly empty) part
RECURSIVE Split(_, _)
Split(s, sep) ==
    IF \A i \in 1..Len(s) : s[i] # sep
    THEN <<s>>
    ELSE LET i == CHOOSE j \in 1..Len(s) :
                      s[j] = sep /\ \A k \in 1..(j - 1) : s[k] # sep
         IN  <<SubSeq(s, 1, i - 1)>> \o Split(SubSeq(s, i + 1, Len(s)), sep)

\* strings.Join(parts, sep)
RECURSIVE Join(_, _)
Join(parts, sep) ==
    IF parts = <<>> THEN <<>>
    ELSE IF Len(parts) = 1 THEN parts[1]
    ELSE parts[1] \o sep \o Join(Tail(parts), sep)

\* Byte order of the parameter names the model uses (what sort.Strings
\* compares by)
NameOrder == <<"foo", "limit", "order", "page", "sort", "status">>

NameRank(n) == CHOOSE i \in 1..Len(NameOrder) : NameOrder[i] = n

\* sort.Strings applied to a collection of distinct names
RECURSIVE SortStrings(_)
SortStrings(S) ==
    IF S = {} THEN <<>>
    ELSE LET m == CHOOSE x \in S : \A y \in S : NameRank(x) <= NameRank(y)
         IN  <<m>> \o SortStrings(S \ {m})

----------------------------------------------------------------------------
(* net/url: the parsed query of a request is its sequence of name/value    *)
(* pairs in the order they were supplied                                   *)

\* url.Values key set (the keys the range over params visits)
QueryNames(q) == {q[i].name : i \in 1..Len(q)}

\* url.Values.Get: the first value supplied for the name
QueryGet(q, n) ==
    LET i == CHOOSE j \in 1..Len(q) :
                 q[j].name = n /\ \A k \in 1..(j - 1) : q[k].name # n
    IN  q[i].value

----------------------------------------------------------------------------
(* CacheMiddleware: key and pattern construction                           *)

cacheableParams == {"status", "limit", "page", "sort", "order"}

\* isCacheableParam accepting every parameter
isCacheableParam_All(param) == TRUE

isCacheableParam(param) == param \in cacheableParams

PathParts(r) == Split(Trim(r.path, "/"), "/")

DefaultVersion == <<"v1">>

\* PathVersion reading the first path segment instead of the second
PathVersion_FirstSegment(parts) == IF Len(parts) > 1 THEN parts[1] ELSE DefaultVersion

PathVersion(parts) == IF Len(parts) > 1 THEN parts[2] ELSE DefaultVersion

\* the allow-listed names of a query in the order they first appear
RECURSIVE FirstAppearance(_)
FirstAppearance(q) ==
    IF q = <<>> THEN <<>>
    ELSE LET init == FirstAppearance(SubSeq(q, 1, Len(q) - 1))
             n    == q[Len(q)].name
         IN  IF isCacheableParam(n) /\ \A i \in 1..Len(init) : init[i] # n
             THEN Append(init, n) ELSE init

\* buildCacheKey without the sort of the parameter names
buildCacheKey_Unsorted(r) ==
    LET parts      == PathParts(r)
        version    == PathVersion(parts)
        keys       == FirstAppearance(r.query)
        queryParts == [i \in 1..Len(keys) |-> <<keys[i], "=", QueryGet(r.query, keys[i])>>]
        keyParts   == <<version, <<"tasks">>>>
                      \o (IF r.userID # EmptyStr THEN <<r.userID>> ELSE <<>>)
                      \o (IF Len(parts) > 3 THEN <<parts[4]>> ELSE <<>>)
                      \o (IF Len(queryParts) > 0 THEN <<Join(queryParts, <<"&">>)>> ELSE <<>>)
    IN  Join(keyParts, <<":">>)

\* buildCacheKey without the X-User-ID part
buildCacheKey_NoScope(r) ==
    LET parts      == PathParts(r)
        version    == PathVersion(parts)
        keys       == SortStrings({k \in QueryNames(r.query) : isCacheableParam(k)})
        queryParts == [i \in 1..Len(keys) |-> <<keys[i], "=", QueryGet(r.query, keys[i])>>]
        keyParts   == <<version, <<"tasks">>>>
                      \o (IF Len(parts) > 3 THEN <<parts[4]>> ELSE <<>>)
                      \o (IF Len(queryParts) > 0 THEN <<Join(queryParts, <<"&">>)>> ELSE <<>>)
    IN  Join(keyParts, <<":">>)

buildCacheKey(r) ==
    LET parts      == PathParts(r)
        version    == PathVersion(parts)
        keys       == SortStrings({k \in QueryNames(r.query) : isCacheableParam(k)})
        queryParts == [i \in 1..Len(keys) |-> <<keys[i], "=", QueryGet(r.query, keys[i])>>]
        keyParts   == <<version, <<"tasks">>>>
                      \o (IF r.userID # EmptyStr THEN <<r.userID>> ELSE <<>>)
                      \o (IF Len(parts) > 3 THEN <<parts[4]>> ELSE <<>>)
                      \o (IF Len(queryParts) > 0 THEN <<Join(queryParts, <<"&">>)>> ELSE <<>>)
    IN  Join(keyParts, <<":">>)

\* buildCachePatterns without the last pattern of a single-resource write
buildCachePatterns_NoIdSuffix(r) ==
    LET parts   == PathParts(r)
        version == PathVersion(parts)
    IN  <<version \o <<":", "tasks", ":", "*">>>>
        \o (IF r.userID # EmptyStr
            THEN <<version \o <<":", "tasks", ":">> \o r.userID \o <<":", "*">>>>
            ELSE <<>>)
        \o (IF Len(parts) > 3
            THEN <<version \o <<":", "tasks", ":", "*", ":">> \o parts[4]>>
            ELSE <<>>)

buildCachePatterns(r) ==
    LET parts   == PathParts(r)
        version == PathVersion(parts)
    IN  <<version \o <<":", "tasks", ":", "*">>>>
        \o (IF r.userID # EmptyStr
            THEN <<version \o <<":", "tasks", ":">> \o r.userID \o <<":", "*">>>>
            ELSE <<>>)
        \o (IF Len(parts) > 3
            THEN <<version \o <<":", "tasks", ":", "*", ":">> \o parts[4],
                   version \o <<":", "tasks", ":", "*", ":">> \o parts[4] \o <<":", "*">>>>
            ELSE <<>>)

\* Redis KEYS glob matching, for patterns made of literals and '*'
\* ('*' matches zero or more characters)
RECURSIVE GlobMatch(_, _)
GlobMatch(pattern, s) ==
    IF pattern = <<>> THEN s = <<>>
    ELSE IF Head(pattern) = "*"
         THEN GlobMatch(Tail(pattern), s)
              \/ (s # <<>> /\ GlobMatch(pattern, Tail(s)))
         ELSE s # <<>> /\ Head(s) = Head(pattern)
              /\ GlobMatch(Tail(pattern), Tail(s))

----------------------------------------------------------------------------
(* encoding/json of a []byte value, as RedisCache.Set and Get use it       *)

\* base64 alphabet positions 0..63; Pad stands for '='
Pad == 64

\* B64Encode with the low bits of the second sextet left out
RECURSIVE B64Encode_LostBits(_)
B64Encode_LostBits(b) ==
    IF Len(b) = 0 THEN <<>>
    ELSE IF Len(b) = 1
         THEN <<b[1] \div 4, (b[1] % 4) * 16, Pad, Pad>>
    ELSE IF Len(b) = 2
         THEN <<b[1] \div 4, (b[1] % 4) * 16, (b[2] % 16) * 4, Pad>>
    ELSE <<b[1] \div 4, (b[1] % 4) * 16,
           (b[2] % 16) * 4 + (b[3] \div 64), b[3] % 64>>
         \o B64Encode_LostBits(SubSeq(b, 4, Len(b)))

\* base64.StdEncoding.EncodeToString
RECURSIVE B64Encode(_)
B64Encode(b) ==
    IF Len(b) = 0 THEN <<>>
    ELSE IF Len(b) = 1
         THEN <<b[1] \div 4, (b[1] % 4) * 16, Pad, Pad>>
    ELSE IF Len(b) = 2
         THEN <<b[1] \div 4, (b[1] % 4) * 16 + (b[2] \div 16), (b[2] % 16) * 4, Pad>>
    ELSE <<b[1] \div 4, (b[1] % 4) * 16 + (b[2] \div 16),
           (b[2] % 16) * 4 + (b[3] \div 64), b[3] % 64>>
         \o B64Encode(SubSeq(b, 4, Len(b)))

DecodeErr == [err |-> TRUE, val |-> <<>>]

\* base64.StdEncoding.DecodeString
RECURSIVE B64Decode(_)
B64Decode(c) ==
    IF Len(c) = 0 THEN [err |-> FALSE, val |-> <<>>]
    ELSE IF Len(c) < 4 \/ c[1] = Pad \/ c[2] = Pad THEN DecodeErr
    ELSE IF c[3] = Pad
         THEN IF Len(c) = 4 /\ c[4] = Pad /\ c[2] % 16 = 0
              THEN [err |-> FALSE, val |-> <<c[1] * 4 + (c[2] \div 16)>>]
              ELSE DecodeErr
    ELSE IF c[4] = Pad
         THEN IF Len(c) = 4 /\ c[3] % 4 = 0
              THEN [err |-> FALSE,
                    val |-> <<c[1] * 4 + (c[2] \div 16),
                              (c[2] % 16) * 16 + (c[3] \div 4)>>]
              ELSE DecodeErr
    ELSE LET rest == B64Decode(SubSeq(c, 5, Len(c)))
         IN  IF rest.err THEN DecodeErr
             ELSE [err |-> FALSE,
                   val |-> <<c[1] * 4 + (c[2] \div 16),
                             (c[2] % 16) * 16 + (c[3] \div 4),
                             (c[3] % 4) * 64 + c[4]>> \o rest.val]

\* A JSON document as stored in Redis: null, or a string of base64 text
JSONNull == [kind |-> "null", text |-> <<>>]

\* json.Marshal of a []byte: a nil slice encodes as null, any other slice as
\* a base64 string.  bytes.Buffer.Bytes() of a buffer nothing was written to
\* is the nil slice, so the empty payload is the nil one.
JSONMarshalBytes(b) ==
    IF b = <<>> THEN JSONNull ELSE [kind |-> "string", text |-> B64Encode(b)]

\* json.Unmarshal into a *[]byte that holds nil: null leaves it nil
JSONUnmarshalBytes(doc) ==
    IF doc.kind = "null" THEN [err |-> FALSE, val |-> <<>>]
    ELSE IF doc.kind = "string" THEN B64Decode(doc.text)
    ELSE DecodeErr

----------------------------------------------------------------------------
(* Requests                                                                *)

\* A request: method, URL path, parsed query, X-User-ID header (empty when
\* absent) and what its Authorization header carries ("none", "invalid",
\* or the role of a valid token).
Req(method, path, query, userID, token) ==
    [method |-> method, path |-> path, query |-> query,
     userID |-> userID, token |-> token]

QP(n, v) == [name |-> n, value |-> v]

TasksV1     == <<"/", "api", "/", "v1", "/", "tasks">>
TasksV1Sl   == <<"/", "api", "/", "v1", "/", "tasks", "/">>
TasksV2     == <<"/", "api", "/", "v2", "/", "tasks">>
Task7V1     == <<"/", "api", "/", "v1", "/", "tasks", "/", "7">>
Task8V1     == <<"/", "api", "/", "v1", "/", "tasks", "/", "8">>
HealthPath  == <<"/", "health">>

ProbePaths   == {TasksV1, TasksV1Sl, TasksV2, Task7V1, Task8V1, HealthPath}
ProbeUserIDs == {EmptyStr, <<"u1">>, <<"u2">>, <<"7">>}
ProbeQueries ==
    { <<>>,
      <<QP("status", "pending")>>,
      <<QP("page", "1"), QP("status", "pending")>>,
      <<QP("status", "pending"), QP("page", "1")>>,
      <<QP("foo", "bar")>>,
      <<QP("status", "pending"), QP("foo", "bar")>> }
ProbeWriteMethods == {"POST", "PUT", "DELETE"}

ProbeReads ==
    {Req("GET", p, q, u, "admin") : p \in ProbePaths, q \in ProbeQueries, u \in ProbeUserIDs}
ProbeWrites ==
    {Req(m, p, <<>>, u, "admin") : m \in ProbeWriteMethods, p \in ProbePaths, u \in ProbeUserIDs}

UsersV1 == <<"/", "api", "/", "v1", "/", "users">>

PairPaths   == {TasksV1, Task7V1, TasksV2, UsersV1, HealthPath}
PairUserIDs == {EmptyStr, <<"u1">>, <<"u2">>, <<"7">>, <<"u1", ":", "7">>}
PairQueries ==
    ProbeQueries \cup
    { <<QP("foo", "baz"), QP("status", "pending")>>,
      <<QP("status", "pending"), QP("status", "done")>>,
      <<QP("status", "done"), QP("status", "pending")>>,
      <<QP("status", "pending"), QP("limit", "1"), QP("page", "1")>>,
      <<QP("page", "1"), QP("status", "pending"), QP("limit", "1")>> }

PairReads ==
    {Req("GET", p, q, u, "admin") : p \in PairPaths, q \in PairQueries, u \in PairUserIDs}

\* the resource a request's path names: version, and task id when present
IsTasksPath(r) ==
    LET parts == PathParts(r)
    IN  Len(parts) \in {3, 4} /\ parts[1] = <<"api">> /\ parts[3] = <<"tasks">>

IsCollectionPath(r) == IsTasksPath(r) /\ Len(PathParts(r)) = 3

\* R reads the collection of W's version, or the task W touches
Affects(w, r) ==
    /\ IsTasksPath(w) /\ IsTasksPath(r)
    /\ PathParts(w)[2] = PathParts(r)[2]
    /\ \/ IsCollectionPath(r)
       \/ /\ Len(PathParts(w)) = 4
          /\ PathParts(w)[4] = PathParts(r)[4]

----------------------------------------------------------------------------
(* auth package: AuthMiddleware as main configures it                      *)

\* symbols a path segment matching [a-zA-Z0-9-]+ can be
IdSymbols == {"7", "8", "me", "api", "v1", "v2", "tasks", "users", "metrics",
              "settings", "health"}

Perm(pattern, methods) == [pattern |-> pattern, methods |-> methods]

DefaultRoles ==
    [admin |->
        { Perm(<<"/", "api", "/", "v1", "/", "tasks">>, {"GET", "POST", "PUT", "DELETE"}),
          Perm(<<"/", "api", "/", "v1", "/", "tasks", "/", "{id}">>, {"GET", "PUT", "DELETE"}),
          Perm(<<"/", "api", "/", "v1", "/", "users">>, {"GET", "POST", "PUT", "DELETE"}),
          Perm(<<"/", "api", "/", "v1", "/", "users", "/", "{id}">>, {"GET", "PUT", "DELETE"}),
          Perm(<<"/", "api", "/", "v1", "/", "metrics">>, {"GET"}),
          Perm(<<"/", "api", "/", "v1", "/", "settings">>, {"GET", "PUT"}) },
     user |->
        { Perm(<<"/", "api", "/", "v1", "/", "tasks">>, {"GET", "POST"}),
          Perm(<<"/", "api", "/", "v1", "/", "tasks", "/", "{id}">>, {"GET", "PUT", "DELETE"}),
          Perm(<<"/", "api", "/", "v1", "/", "users", "/", "me">>, {"GET", "PUT"}) },
     viewer |->
        { Perm(<<"/", "api", "/", "v1", "/", "tasks">>, {"GET"}),
          Perm(<<"/", "api", "/", "v1", "/", "tasks", "/", "{id}">>, {"GET"}) }]

PublicPaths == {<<"/", "health">>}

HasPrefix(s, prefix) ==
    Len(s) >= Len(prefix) /\ SubSeq(s, 1, Len(prefix)) = prefix

\* the pattern with {id} replaced by [a-zA-Z0-9-]+, anchored at both ends
matchPath(pattern, path) ==
    /\ Len(pattern) = Len(path)
    /\ \A i \in 1..Len(pattern) :
          IF pattern[i] = "{id}" THEN path[i] \in IdSymbols ELSE path[i] = pattern[i]

StatusOK                  == 200
StatusCreated             == 201
StatusNoContent           == 204
StatusUnauthorized        == 401
StatusForbidden           == 403
StatusNotFound            == 404
StatusInternalServerError == 500

\* 0 when the request is passed on to the next handler, else the status of
\* the error response
AuthMiddleware(r) ==
    IF \E pp \in PublicPaths : HasPrefix(r.path, pp) THEN 0
    ELSE IF r.token \in {"none", "invalid"} THEN StatusUnauthorized
    ELSE IF \E perm \in DefaultRoles[r.token] :
                matchPath(perm.pattern, r.path) /\ r.method \in perm.methods
         THEN 0
         ELSE StatusForbidden

----------------------------------------------------------------------------
(* What a handler does to the ResponseWriter it is given: at most one      *)
(* WriteHeader, then its Write calls in order                              *)

Output(wroteHeader, status, chunks) ==
    [wroteHeader |-> wroteHeader, status |-> status, chunks |-> chunks]

NoOutput == Output(FALSE, 0, <<>>)

ChunkA == <<123>>
ChunkB == <<125, 10>>
ChunkE == <<110, 111>>

\* http.Error: WriteHeader(code), then the message
HTTPError(code) == Output(TRUE, code, <<ChunkE>>)

\* responses of the resource handler behind the router
HandlerOutputs ==
    { Output(TRUE, StatusOK, <<ChunkA, ChunkB>>),
      Output(TRUE, StatusOK, <<ChunkE>>),
      Output(TRUE, StatusOK, <<>>),
      Output(TRUE, StatusCreated, <<ChunkA>>),
      Output(TRUE, StatusNoContent, <<>>),
      Output(FALSE, 0, <<ChunkA, ChunkB>>),
      HTTPError(StatusNotFound),
      HTTPError(StatusInternalServerError) }

\* the router of main: AuthMiddleware in front of the resource handler
RouterOutputs(r) ==
    IF AuthMiddleware(r) # 0 THEN {HTTPError(AuthMiddleware(r))} ELSE HandlerOutputs

RECURSIVE Flatten(_)
Flatten(chunks) ==
    IF chunks = <<>> THEN <<>> ELSE Head(chunks) \o Flatten(Tail(chunks))

\* the client's side of a response and the recorder's side of it
NoIO == [cliStatus |-> 0, cliBody |-> <<>>, hdr |-> {},
         recStatus |-> 0, recBuf |-> <<>>]

\* http.ResponseWriter.WriteHeader: the first status sent is the response's
rawWriteHeader(io, code) ==
    [io EXCEPT !.cliStatus = IF @ = 0 THEN code ELSE @]

\* http.ResponseWriter.Write: sends 200 first when no status was sent
rawWrite(io, b) ==
    [io EXCEPT !.cliStatus = IF @ = 0 THEN StatusOK ELSE @, !.cliBody = @ \o b]

\* recorderWriteHeader keeping the status to itself
recorderWriteHeader_CaptureOnly(io, code) ==
    [io EXCEPT !.recStatus = code]

recorderWriteHeader(io, code) ==
    rawWriteHeader([io EXCEPT !.recStatus = code], code)

\* recorderWrite keeping only the last chunk in the buffer
recorderWrite_LastChunk(io, b) ==
    rawWrite([io EXCEPT !.recBuf = b], b)

recorderWrite(io, b) ==
    rawWrite([io EXCEPT !.recBuf = @ \o b], b)

RECURSIVE WriteAll(_, _, _)
WriteAll(io, chunks, recording) ==
    IF chunks = <<>> THEN io
    ELSE WriteAll(IF recording THEN recorderWrite(io, Head(chunks))
                               ELSE rawWrite(io, Head(chunks)),
                  Tail(chunks), recording)

\* next.ServeHTTP(w, r) with the handler behaving as out; the server sends
\* 200 when the handler returns without having sent a status
ServeHTTP(io, out, recording) ==
    LET started == IF ~out.wroteHeader THEN io
                   ELSE IF recording THEN recorderWriteHeader(io, out.status)
                   ELSE rawWriteHeader(io, out.status)
        written == WriteAll(started, out.chunks, recording)
    IN  [written EXCEPT !.cliStatus = IF @ = 0 THEN StatusOK ELSE @]

----------------------------------------------------------------------------
(* State                                                                   *)

Procs == 1..NumProcs

\* the duration main gives NewCacheMiddleware, in seconds
CacheDuration == 300

\* the requests the clients of the model send
Requests ==
    { Req("GET", TasksV1, <<>>, EmptyStr, "viewer"),
      Req("GET", TasksV1, <<>>, EmptyStr, "none"),
      Req("GET", TasksV1, <<QP("status", "pending")>>, <<"u1">>, "viewer"),
      Req("GET", Task7V1, <<>>, EmptyStr, "user"),
      Req("POST", TasksV1, <<>>, <<"u1">>, "user"),
      Req("PUT", Task7V1, <<>>, EmptyStr, "admin"),
      Req("DELETE", Task7V1, <<>>, <<"u1">>, "none"),
      Req("HEAD", TasksV1, <<>>, EmptyStr, "viewer"),
      Req("PATCH", Task7V1, <<>>, <<"u1">>, "admin"),
      Req("OPTIONS", TasksV1, <<>>, EmptyStr, "none") }

NoReq == Req("", <<>>, <<>>, EmptyStr, "none")

VARIABLES
    limit,      \* the RateLimiter: its counters in Redis and its calls
    gor,        \* the goroutines that use the ServiceMonitor's states map
    ver,        \* VersionManager.GetVersion applied to a request
    mon,        \* the ServiceMonitor: its states, its clock, its last call
    probe,      \* key/pattern builders applied to a pair of requests
    pair,       \* key builder applied to two read requests
    hist,       \* store operations applied directly to the store, in order
    store,      \* Redis: key -> entry, for the keys that are present
    storeUp,    \* whether Redis answers the client's calls
    pc,         \* per slot: where its CacheHandler call stands
    req,        \* per slot: the request being served
    loc         \* per slot: locals of the call, the response, and a record
                \* of the calls it made

vars == <<limit, gor, ver, mon, probe, pair, hist, store, storeUp, pc, req, loc>>

NoProbe == [w |-> Req("POST", TasksV1, <<>>, EmptyStr, "admin"),
            r |-> Req("GET", TasksV1, <<>>, EmptyStr, "admin"),
            applied |-> FALSE, key |-> <<>>, patterns |-> <<>>]

NoPair == [a |-> Req("GET", TasksV1, <<>>, EmptyStr, "admin"),
           b |-> Req("GET", TasksV1, <<>>, EmptyStr, "admin"),
           applied |-> FALSE, keyA |-> <<>>, keyB |-> <<>>]

NoVer == [accept |-> <<>>, path |-> <<>>, applied |-> FALSE,
          version |-> <<>>, newPath |-> <<>>]

\* A monitor with no state stored: the states by service name, the clock,
\* whether ENABLE_ALARMS was "true" at construction, and a record of the
\* last call (its kind, its argument, its error, and the CreateAlarm and
\* PutMetricData calls it made)
NoStates == [n \in {} |-> 0]
ZeroTime == [zero |-> TRUE, at |-> 0]
NoState == [name |-> "", status |-> "", timestamp |-> ZeroTime, metrics |-> {}]
NoMon == [states |-> NoStates, now |-> 0, alarmsEnabled |-> FALSE,
          last |-> "", arg |-> NoState, err |-> "none", trace |-> <<>>,
          alarms |-> {}, failed |-> {}]

\* A Redis entry.  data and ttl are what SET stored; the other fields record
\* its history: the payload the Set was given, the method of the request
\* that issued it, the API versions for which a write request has run to
\* completion, with no store error, since it was stored, the requests whose
\* Keys call returned it, the time since the Set, and whether the Set came
\* after a write request in flight had begun to enumerate or had run its
\* handler.
Entry(data, ttl, body, by) ==
    [data |-> data, ttl |-> ttl, body |-> body, by |-> by, staleFor |-> {},
     seenBy |-> {}, age |-> 0, late |-> FALSE]

\* Locals of a CacheHandler call (cachedResponse, the recorder, the pattern
\* loop's position and the keys still to delete), whether r.Context() is
\* cancelled, the response (io), and a
\* record of what the call did: the handler output chosen, whether Get
\* succeeded, the store calls made and how many of them failed, the Sets
\* issued, the history of the entry a hit was read from, how many keys
\* the Keys calls returned, the API versions on which a write request
\* ran its handler after this call's handler had returned, and what Get
\* came upon.
InitLoc ==
    [cachedResponse |-> <<>>, io |-> NoIO, pidx |-> 0, pending |-> {},
     out |-> NoOutput, hit |-> FALSE,
     nGet |-> 0, nKeys |-> 0, nDel |-> 0, nErr |-> 0, nOrigin |-> 0,
     sets |-> <<>>, srcBody |-> <<>>, srcStale |-> {}, cancelled |-> FALSE,
     nEnum |-> 0, preWrite |-> {}, found |-> "none"]

EmptyStore == [k \in {} |-> JSONNull]

\* the expiration of Set that means the key never expires
NoExpiration == 0

\* no counter, no call of the rate limiter
NoCall == [pc |-> "idle", addr |-> "", val |-> 0, life |-> 0, status |-> 0,
           nNext |-> 0]
NoLimit == [keys |-> [a \in {} |-> 0], up |-> TRUE, sent |-> 0,
            calls |-> [c \in {} |-> NoCall], lives |-> [a \in {} |-> 0],
            passed |-> [a \in {} |-> 0]]

\* no goroutine
NoGor == [at |-> [g \in {} |-> ""], arg |-> [g \in {} |-> ""], left |-> {},
          stopped |-> FALSE, crashed |-> FALSE]

Init ==
    /\ limit = NoLimit
    /\ gor = NoGor
    /\ probe = NoProbe
    /\ pair = NoPair
    /\ hist = <<>>
    /\ ver = NoVer
    /\ mon = NoMon
    /\ store = EmptyStore
    /\ storeUp = TRUE
    /\ pc = [p \in Procs |-> "idle"]
    /\ req = [p \in Procs |-> NoReq]
    /\ loc = [p \in Procs |-> InitLoc]

----------------------------------------------------------------------------
(* RedisCache                                                              *)

\* RedisCache.Get into a *[]byte: an error when Redis is unreachable, when
\* the key is absent (redis.Nil) or when the stored data does not decode
RedisGet(key) ==
    IF ~storeUp \/ key \notin DOMAIN store THEN DecodeErr
    ELSE JSONUnmarshalBytes(store[key].data)

\* RedisSet leaving a present key as it is
RedisSet_KeepExisting(key, value, expiration, by) ==
    [k \in DOMAIN store \cup {key} |->
        IF k \in DOMAIN store THEN store[k]
        ELSE Entry(JSONMarshalBytes(value), expiration, value, by)]

\* the store after RedisCache.Set(key, value, expiration) reached Redis
RedisSet(key, value, expiration, by) ==
    [k \in DOMAIN store \cup {key} |->
        IF k = key THEN Entry(JSONMarshalBytes(value), expiration, value, by)
                   ELSE store[k]]

\* the store after RedisCache.Clear reached Redis (FLUSHALL)
RedisClear == EmptyStore

\* RedisKeys returning every key, whatever the pattern
RedisKeys_All(pattern) == DOMAIN store

\* RedisKeys taking the pattern for a key
RedisKeys_Exact(pattern) == {k \in DOMAIN store : k = pattern}

\* RedisCache.Keys: the present keys the pattern matches
RedisKeys(pattern) == {k \in DOMAIN store : GlobMatch(pattern, k)}

\* the store after RedisCache.Delete(key) reached Redis
RedisDelete(key) == [k \in DOMAIN store \ {key} |-> store[k]]

\* RedisDeleteErr failing on a key that is not present
RedisDeleteErr_Absent(key) == ~storeUp \/ key \notin DOMAIN store

\* whether RedisCache.Delete(key) returns an error: DEL of a key that is
\* not there removes nothing and is no error
RedisDeleteErr(key) == ~storeUp

----------------------------------------------------------------------------
(* CacheMiddleware.CacheHandler, one step per store call or handler call   *)

\* whether a store call made with r.Context() reaches Redis: the client
\* returns the context's error without sending anything when the context
\* it is given is already cancelled
Reaches(p) == storeUp /\ ~loc[p].cancelled

\* what p's Get comes upon: no answer, no key, a document that does not
\* decode into a byte slice, or an entry
Found(p, key) ==
    IF ~Reaches(p) THEN "error"
    ELSE IF key \notin DOMAIN store THEN "absent"
    ELSE IF JSONUnmarshalBytes(store[key].data).err THEN "corrupt"
    ELSE "entry"

\* IsRead taking HEAD for a read as well
IsRead_WithHead(method) == method \in {"GET", "HEAD"}

IsRead(method) == method = "GET"

\* ShouldCache accepting every status that is not a server error
ShouldCache_NotServerError(status) == status < 500

\* "Only cache successful responses"
ShouldCache(status) == status = StatusOK \/ status = StatusCreated

\* ReplayHit without the cache marker header
ReplayHit_NoMarker(io, cachedResponse) ==
    rawWrite([io EXCEPT !.hdr = {<<"Content-Type", "application/json">>}],
             cachedResponse)

\* ReplayHit sending 201 before the cached bytes
ReplayHit_Created(io, cachedResponse) ==
    rawWrite(rawWriteHeader([io EXCEPT !.hdr = {<<"Content-Type", "application/json">>,
                                                <<"X-Cache", "HIT">>}],
                            StatusCreated),
             cachedResponse)

\* the cache hit branch: two headers, then the cached bytes
ReplayHit(io, cachedResponse) ==
    rawWrite([io EXCEPT !.hdr = {<<"Content-Type", "application/json">>,
                                 <<"X-Cache", "HIT">>}],
             cachedResponse)

Patterns(p) == buildCachePatterns(req[p])

\* a client sends request r and CacheHandler takes its branch
Start(p, r) ==
    /\ pc[p] = "idle"
    /\ req' = [req EXCEPT ![p] = r]
    /\ IF IsRead(r.method)
       THEN /\ pc' = [pc EXCEPT ![p] = "get"]
            /\ loc' = [loc EXCEPT ![p] = InitLoc]
       ELSE /\ pc' = [pc EXCEPT ![p] = "keys"]
            /\ loc' = [loc EXCEPT ![p] = [InitLoc EXCEPT !.pidx = 1]]
    /\ UNCHANGED <<limit, gor, ver, mon, probe, pair, hist, store, storeUp>>

\* CacheGet answering 500 when Redis is unreachable
CacheGet_FailClosed(p) ==
    /\ pc[p] = "get"
    /\ LET key == buildCacheKey(req[p])
           got == IF loc[p].cancelled THEN DecodeErr ELSE RedisGet(key)
           l1  == [loc[p] EXCEPT !.nGet = @ + 1,
                                 !.found = Found(p, key),
                                 !.nErr = IF Reaches(p) THEN @ ELSE @ + 1]
       IN  IF ~got.err
           THEN /\ loc' = [loc EXCEPT ![p] =
                              [l1 EXCEPT !.cachedResponse = got.val,
                                         !.hit = TRUE,
                                         !.srcBody = store[key].body,
                                         !.srcStale = store[key].staleFor,
                                         !.io = ReplayHit(l1.io, got.val)]]
                /\ pc' = [pc EXCEPT ![p] = "done"]
           ELSE IF ~Reaches(p)
           THEN /\ loc' = [loc EXCEPT ![p] =
                              [l1 EXCEPT !.io = rawWriteHeader(l1.io, StatusInternalServerError)]]
                /\ pc' = [pc EXCEPT ![p] = "done"]
           ELSE /\ loc' = [loc EXCEPT ![p] = l1]
                /\ pc' = [pc EXCEPT ![p] = "origin"]
    /\ UNCHANGED <<limit, gor, ver, mon, probe, pair, hist, store, storeUp, req>>

\* CacheGet calling Get a second time when the first call fails
CacheGet_RetryOnce(p) ==
    /\ pc[p] = "get"
    /\ LET key == buildCacheKey(req[p])
           got == IF loc[p].cancelled THEN DecodeErr ELSE RedisGet(key)
           l1  == [loc[p] EXCEPT !.nGet = @ + 1,
                                 !.found = Found(p, key),
                                 !.nErr = IF Reaches(p) THEN @ ELSE @ + 1]
       IN  IF ~got.err
           THEN /\ loc' = [loc EXCEPT ![p] =
                              [l1 EXCEPT !.cachedResponse = got.val,
                                         !.hit = TRUE,
                                         !.srcBody = store[key].body,
                                         !.srcStale = store[key].staleFor,
                                         !.io = ReplayHit(l1.io, got.val)]]
                /\ pc' = [pc EXCEPT ![p] = "done"]
           ELSE /\ loc' = [loc EXCEPT ![p] = l1]
                /\ pc' = [pc EXCEPT ![p] = IF loc[p].nGet = 0 THEN "get" ELSE "origin"]
    /\ UNCHANGED <<limit, gor, ver, mon, probe, pair, hist, store, storeUp, req>>

\* CacheGet deleting an entry it cannot decode
CacheGet_DropCorrupt(p) ==
    /\ pc[p] = "get"
    /\ LET key == buildCacheKey(req[p])
           got == IF loc[p].cancelled THEN DecodeErr ELSE RedisGet(key)
           l1  == [loc[p] EXCEPT !.nGet = @ + 1,
                                 !.found = Found(p, key),
                                 !.nErr = IF Reaches(p) THEN @ ELSE @ + 1]
       IN  IF ~got.err
           THEN /\ loc' = [loc EXCEPT ![p] =
                              [l1 EXCEPT !.cachedResponse = got.val,
                                         !.hit = TRUE,
                                         !.srcBody = store[key].body,
                                         !.srcStale = store[key].staleFor,
                                         !.io = ReplayHit(l1.io, got.val)]]
                /\ pc' = [pc EXCEPT ![p] = "done"]
                /\ store' = store
           ELSE /\ loc' = [loc EXCEPT ![p] = l1]
                /\ pc' = [pc EXCEPT ![p] = "origin"]
                /\ store' = IF Found(p, key) = "corrupt" THEN RedisDelete(key) ELSE store
    /\ UNCHANGED <<limit, gor, ver, mon, probe, pair, hist, storeUp, req>>

\* m.cache.Get(ctx, cacheKey, &cachedResponse) and the hit branch
CacheGet(p) ==
    /\ pc[p] = "get"
    /\ LET key == buildCacheKey(req[p])
           got == IF loc[p].cancelled THEN DecodeErr ELSE RedisGet(key)
           l1  == [loc[p] EXCEPT !.nGet = @ + 1,
                                 !.found = Found(p, key),
                                 !.nErr = IF Reaches(p) THEN @ ELSE @ + 1]
       IN  IF ~got.err
           THEN /\ loc' = [loc EXCEPT ![p] =
                              [l1 EXCEPT !.cachedResponse = got.val,
                                         !.hit = TRUE,
                                         !.srcBody = store[key].body,
                                         !.srcStale = store[key].staleFor,
                                         !.io = ReplayHit(l1.io, got.val)]]
                /\ pc' = [pc EXCEPT ![p] = "done"]
           ELSE /\ loc' = [loc EXCEPT ![p] = l1]
                /\ pc' = [pc EXCEPT ![p] = "origin"]
    /\ UNCHANGED <<limit, gor, ver, mon, probe, pair, hist, store, storeUp, req>>

\* next.ServeHTTP(recorder, r) on a miss
Origin(p) ==
    /\ pc[p] = "origin"
    /\ \E out \in RouterOutputs(req[p]) :
          loc' = [loc EXCEPT ![p] =
                     [@ EXCEPT !.out = out,
                               !.nOrigin = @ + 1,
                               !.io = ServeHTTP(@, out, TRUE)]]
    /\ pc' = [pc EXCEPT ![p] = "populate"]
    /\ UNCHANGED <<limit, gor, ver, mon, probe, pair, hist, store, storeUp, req>>

\* a write request has begun to enumerate and has not run its handler yet
Invalidating(w) ==
    /\ pc[w] \in {"keys", "delete", "worigin"}
    /\ loc[w].nKeys >= 1

\* the store after the Set of p's populate step reached Redis
PopulateEntry(p, key, buf, ttl) ==
    [RedisSet(key, buf, ttl, req[p].method) EXCEPT
        ![key].staleFor = loc[p].preWrite,
        ![key].late = (loc[p].preWrite # {}) \/ (\E w \in Procs : Invalidating(w))]

\* Populate calling Set with a context of its own instead of r.Context()
Populate_OwnContext(p) ==
    /\ pc[p] = "populate"
    /\ LET key == buildCacheKey(req[p])
           buf == loc[p].io.recBuf
       IN  IF ShouldCache(loc[p].io.recStatus)
           THEN /\ loc' = [loc EXCEPT ![p] =
                              [@ EXCEPT !.sets = Append(@, [key |-> key, value |-> buf,
                                                            ttl |-> CacheDuration]),
                                        !.nErr = IF storeUp THEN @ ELSE @ + 1]]
                /\ store' = IF storeUp
                            THEN PopulateEntry(p, key, buf, CacheDuration)
                            ELSE store
           ELSE UNCHANGED <<loc, store>>
    /\ pc' = [pc EXCEPT ![p] = "done"]
    /\ UNCHANGED <<limit, gor, ver, mon, probe, pair, hist, storeUp, req>>

\* Populate calling Set without an expiration
Populate_NoExpiration(p) ==
    /\ pc[p] = "populate"
    /\ LET key == buildCacheKey(req[p])
           buf == loc[p].io.recBuf
       IN  IF ShouldCache(loc[p].io.recStatus)
           THEN /\ loc' = [loc EXCEPT ![p] =
                              [@ EXCEPT !.sets = Append(@, [key |-> key, value |-> buf,
                                                            ttl |-> NoExpiration]),
                                        !.nErr = IF Reaches(p) THEN @ ELSE @ + 1]]
                /\ store' = IF Reaches(p)
                            THEN PopulateEntry(p, key, buf, NoExpiration)
                            ELSE store
           ELSE UNCHANGED <<loc, store>>
    /\ pc' = [pc EXCEPT ![p] = "done"]
    /\ UNCHANGED <<limit, gor, ver, mon, probe, pair, hist, storeUp, req>>

\* Populate leaving a key that is already stored as it is
Populate_IfAbsent(p) ==
    /\ pc[p] = "populate"
    /\ LET key == buildCacheKey(req[p])
           buf == loc[p].io.recBuf
       IN  IF ShouldCache(loc[p].io.recStatus) /\ key \notin DOMAIN store
           THEN /\ loc' = [loc EXCEPT ![p] =
                              [@ EXCEPT !.sets = Append(@, [key |-> key, value |-> buf,
                                                            ttl |-> CacheDuration]),
                                        !.nErr = IF Reaches(p) THEN @ ELSE @ + 1]]
                /\ store' = IF Reaches(p)
                            THEN PopulateEntry(p, key, buf, CacheDuration)
                            ELSE store
           ELSE UNCHANGED <<loc, store>>
    /\ pc' = [pc EXCEPT ![p] = "done"]
    /\ UNCHANGED <<limit, gor, ver, mon, probe, pair, hist, storeUp, req>>

\* the status test after the handler returned, and m.cache.Set
Populate(p) ==
    /\ pc[p] = "populate"
    /\ LET key == buildCacheKey(req[p])
           buf == loc[p].io.recBuf
       IN  IF ShouldCache(loc[p].io.recStatus)
           THEN /\ loc' = [loc EXCEPT ![p] =
                              [@ EXCEPT !.sets = Append(@, [key |-> key, value |-> buf,
                                                            ttl |-> CacheDuration]),
                                        !.nErr = IF Reaches(p) THEN @ ELSE @ + 1]]
                /\ store' = IF Reaches(p)
                            THEN PopulateEntry(p, key, buf, CacheDuration)
                            ELSE store
           ELSE UNCHANGED <<loc, store>>
    /\ pc' = [pc EXCEPT ![p] = "done"]
    /\ UNCHANGED <<limit, gor, ver, mon, probe, pair, hist, storeUp, req>>

\* the pattern loop moves on: to the next pattern, or to the handler
NextPattern(l, n) ==
    IF l.pidx < n THEN [l EXCEPT !.pidx = @ + 1, !.pending = {}]
    ELSE [l EXCEPT !.pidx = 0, !.pending = {}]

\* AfterPattern going to the handler after the first pattern
AfterPattern_FirstOnly(l, n) == "worigin"

AfterPattern(l, n) == IF l.pidx < n THEN "keys" ELSE "worigin"

\* the entries under keys, noted as returned to p's enumeration
MarkSeen(keys, p) ==
    [k \in DOMAIN store |->
        IF k \in keys THEN [store[k] EXCEPT !.seenBy = @ \cup {p}] ELSE store[k]]

\* the entries without the notes of p's enumerations
Unmark(p) ==
    [k \in DOMAIN store |-> [store[k] EXCEPT !.seenBy = @ \ {p}]]

\* InvalidateKeys returning from the handler when Keys fails
InvalidateKeys_Abort(p) ==
    /\ pc[p] = "keys"
    /\ LET n    == Len(Patterns(p))
           keys == RedisKeys(Patterns(p)[loc[p].pidx])
           l1   == [loc[p] EXCEPT !.nKeys = @ + 1,
                                  !.nErr = IF Reaches(p) THEN @ ELSE @ + 1]
       IN  IF ~Reaches(p)
           THEN /\ loc' = [loc EXCEPT ![p] =
                              [l1 EXCEPT !.io = rawWriteHeader(l1.io, StatusInternalServerError)]]
                /\ pc' = [pc EXCEPT ![p] = "done"]
                /\ store' = store
           ELSE IF keys # {}
           THEN /\ loc' = [loc EXCEPT ![p] =
                              [l1 EXCEPT !.pending = keys,
                                         !.nEnum = @ + Cardinality(keys)]]
                /\ pc' = [pc EXCEPT ![p] = "delete"]
                /\ store' = MarkSeen(keys, p)
           ELSE /\ loc' = [loc EXCEPT ![p] = NextPattern(l1, n)]
                /\ pc' = [pc EXCEPT ![p] = AfterPattern(l1, n)]
                /\ store' = store
    /\ UNCHANGED <<limit, gor, ver, mon, probe, pair, hist, storeUp, req>>

\* m.cache.Keys(ctx, pattern) for the current pattern
InvalidateKeys(p) ==
    /\ pc[p] = "keys"
    /\ LET n    == Len(Patterns(p))
           keys == RedisKeys(Patterns(p)[loc[p].pidx])
           l1   == [loc[p] EXCEPT !.nKeys = @ + 1,
                                  !.nErr = IF Reaches(p) THEN @ ELSE @ + 1]
       IN  IF Reaches(p) /\ keys # {}
           THEN /\ loc' = [loc EXCEPT ![p] =
                              [l1 EXCEPT !.pending = keys,
                                         !.nEnum = @ + Cardinality(keys)]]
                /\ pc' = [pc EXCEPT ![p] = "delete"]
                /\ store' = MarkSeen(keys, p)
           ELSE /\ loc' = [loc EXCEPT ![p] = NextPattern(l1, n)]
                /\ pc' = [pc EXCEPT ![p] = AfterPattern(l1, n)]
                /\ store' = store
    /\ UNCHANGED <<limit, gor, ver, mon, probe, pair, hist, storeUp, req>>

\* InvalidateDelete leaving the key loop after the first key
InvalidateDelete_FirstOnly(p) ==
    /\ pc[p] = "delete"
    /\ \E key \in loc[p].pending :
          LET n    == Len(Patterns(p))
              rest == loc[p].pending \ {key}
              l1   == [loc[p] EXCEPT !.nDel = @ + 1,
                                     !.nErr = IF Reaches(p) THEN @ ELSE @ + 1,
                                     !.pending = rest]
          IN  /\ store' = IF Reaches(p) THEN RedisDelete(key) ELSE store
              /\ loc' = [loc EXCEPT ![p] = NextPattern(l1, n)]
              /\ pc' = [pc EXCEPT ![p] = AfterPattern(l1, n)]
    /\ UNCHANGED <<limit, gor, ver, mon, probe, pair, hist, storeUp, req>>

\* InvalidateDelete leaving the key loop when a Delete fails
InvalidateDelete_Abort(p) ==
    /\ pc[p] = "delete"
    /\ \E key \in loc[p].pending :
          LET n    == Len(Patterns(p))
              rest == loc[p].pending \ {key}
              l1   == [loc[p] EXCEPT !.nDel = @ + 1,
                                     !.nErr = IF Reaches(p) THEN @ ELSE @ + 1,
                                     !.pending = rest]
          IN  /\ store' = IF Reaches(p) THEN RedisDelete(key) ELSE store
              /\ IF rest # {} /\ Reaches(p)
                 THEN /\ loc' = [loc EXCEPT ![p] = l1]
                      /\ pc' = pc
                 ELSE /\ loc' = [loc EXCEPT ![p] = NextPattern(l1, n)]
                      /\ pc' = [pc EXCEPT ![p] = AfterPattern(l1, n)]
    /\ UNCHANGED <<limit, gor, ver, mon, probe, pair, hist, storeUp, req>>

\* m.cache.Delete(ctx, key) for the next key of the enumeration (Redis
\* returns the keys in no particular order)
InvalidateDelete(p) ==
    /\ pc[p] = "delete"
    /\ \E key \in loc[p].pending :
          LET n    == Len(Patterns(p))
              rest == loc[p].pending \ {key}
              l1   == [loc[p] EXCEPT !.nDel = @ + 1,
                                     !.nErr = IF Reaches(p) THEN @ ELSE @ + 1,
                                     !.pending = rest]
          IN  /\ store' = IF Reaches(p) THEN RedisDelete(key) ELSE store
              /\ IF rest # {}
                 THEN /\ loc' = [loc EXCEPT ![p] = l1]
                      /\ pc' = pc
                 ELSE /\ loc' = [loc EXCEPT ![p] = NextPattern(l1, n)]
                      /\ pc' = [pc EXCEPT ![p] = AfterPattern(l1, n)]
    /\ UNCHANGED <<limit, gor, ver, mon, probe, pair, hist, storeUp, req>>

\* the entries as they are when a write request on version v has completed
\* without a store error
MarkStale(v) ==
    [k \in DOMAIN store |-> [store[k] EXCEPT !.staleFor = @ \cup {v}]]

\* next.ServeHTTP(w, r) of a write request, which completes it
WriteOrigin(p) ==
    /\ pc[p] = "worigin"
    /\ \E out \in RouterOutputs(req[p]) :
          loc' = [q \in Procs |->
                     IF q = p
                     THEN [loc[p] EXCEPT !.out = out,
                                         !.nOrigin = @ + 1,
                                         !.io = ServeHTTP(@, out, FALSE)]
                     ELSE IF /\ loc[p].nErr = 0 /\ IsTasksPath(req[p])
                             /\ pc[q] = "populate"
                          THEN [loc[q] EXCEPT !.preWrite =
                                   @ \cup {PathVersion(PathParts(req[p]))}]
                          ELSE loc[q]]
    /\ store' = IF loc[p].nErr = 0 /\ IsTasksPath(req[p])
                THEN MarkStale(PathVersion(PathParts(req[p])))
                ELSE store
    /\ pc' = [pc EXCEPT ![p] = "done"]
    /\ UNCHANGED <<limit, gor, ver, mon, probe, pair, hist, storeUp, req>>

\* the response has been delivered; the slot is free again
Finish(p) ==
    /\ pc[p] = "done"
    /\ pc' = [pc EXCEPT ![p] = "idle"]
    /\ req' = [req EXCEPT ![p] = NoReq]
    /\ loc' = [loc EXCEPT ![p] = InitLoc]
    /\ store' = Unmark(p)
    /\ UNCHANGED <<limit, gor, ver, mon, probe, pair, hist, storeUp>>

----------------------------------------------------------------------------
(* The environment of the overlay                                          *)

\* Redis becomes unreachable / reachable again
StoreFail ==
    /\ storeUp
    /\ storeUp' = FALSE
    /\ UNCHANGED <<limit, gor, ver, mon, probe, pair, hist, store, pc, req, loc>>

StoreRecover ==
    /\ ~storeUp
    /\ storeUp' = TRUE
    /\ UNCHANGED <<limit, gor, ver, mon, probe, pair, hist, store, pc, req, loc>>

\* the context of an inbound request is cancelled (the client went away)
Cancel(p) ==
    /\ pc[p] \in {"get", "origin", "populate", "keys", "delete", "worigin"}
    /\ ~loc[p].cancelled
    /\ loc' = [loc EXCEPT ![p] = [@ EXCEPT !.cancelled = TRUE]]
    /\ UNCHANGED <<limit, gor, ver, mon, probe, pair, hist, store, storeUp, pc, req>>

\* the TTL of an entry runs out
Expire ==
    /\ \E key \in DOMAIN store : store' = RedisDelete(key)
    /\ UNCHANGED <<limit, gor, ver, mon, probe, pair, hist, storeUp, pc, req, loc>>

\* Requests served one at a time
StartAlone(p, r) ==
    /\ \A q \in Procs : pc[q] = "idle"
    /\ Start(p, r)

Next ==
    \/ \E p \in Procs, r \in Requests : StartAlone(p, r)
    \/ \E p \in Procs : CacheGet(p)
    \/ \E p \in Procs : Origin(p)
    \/ \E p \in Procs : Populate(p)
    \/ \E p \in Procs : InvalidateKeys(p)
    \/ \E p \in Procs : InvalidateDelete(p)
    \/ \E p \in Procs : WriteOrigin(p)
    \/ \E p \in Procs : Finish(p)
    \/ \E p \in Procs : Cancel(p)
    \/ StoreFail
    \/ StoreRecover
    \/ Expire

Spec == Init /\ [][Next]_vars

----------------------------------------------------------------------------
(* The builders applied to every pair of a write and a read                *)

InitKey ==
    /\ limit = NoLimit
    /\ gor = NoGor
    /\ pair = NoPair
    /\ hist = <<>>
    /\ ver = NoVer
    /\ mon = NoMon
    /\ store = EmptyStore
    /\ storeUp = TRUE
    /\ pc = [p \in Procs |-> "idle"]
    /\ req = [p \in Procs |-> NoReq]
    /\ loc = [p \in Procs |-> InitLoc]
    /\ probe \in {[w |-> w, r |-> r, applied |-> FALSE, key |-> <<>>, patterns |-> <<>>] :
                    w \in ProbeWrites, r \in ProbeReads}

ApplyBuilders ==
    /\ ~probe.applied
    /\ probe' = [probe EXCEPT !.applied = TRUE,
                              !.key = buildCacheKey(probe.r),
                              !.patterns = buildCachePatterns(probe.w)]
    /\ UNCHANGED <<limit, gor, ver, mon, pair, hist, store, storeUp, pc, req, loc>>

NextKey == ApplyBuilders

SpecKey == InitKey /\ [][NextKey]_vars

Covered(patterns, key) == \E i \in 1..Len(patterns) : GlobMatch(patterns[i], key)

\* C1: for every write W and every read R of W's collection or of the task W
\* touches, buildCacheKey(R) matches at least one pattern of
\* buildCachePatterns(W).
C1_InvalidationCoverage ==
    (probe.applied /\ Affects(probe.w, probe.r))
        => Covered(probe.patterns, probe.key)

----------------------------------------------------------------------------
(* Reads served one at a time while time passes                            *)

TicksPerTTL == 5

\* the time one Tick stands for, in seconds
TickLen == CacheDuration \div TicksPerTTL

MaxAge == TicksPerTTL + 1

\* Redis no longer holds an entry once its expiration has passed
Expired(e) == e.ttl > NoExpiration /\ e.age * TickLen >= e.ttl

\* time passes: every entry is older, and those whose time is up are gone
Tick ==
    /\ \A k \in DOMAIN store : store[k].age < MaxAge
    /\ LET aged == [k \in DOMAIN store |-> [store[k] EXCEPT !.age = @ + 1]]
       IN  store' = [k \in {j \in DOMAIN aged : ~Expired(aged[j])} |-> aged[k]]
    /\ UNCHANGED <<limit, gor, ver, mon, probe, pair, hist, storeUp, pc, req, loc>>

NextTTL ==
    \/ \E p \in Procs, r \in Requests : r.method = "GET" /\ StartAlone(p, r)
    \/ \E p \in Procs : CacheGet(p)
    \/ \E p \in Procs : Origin(p)
    \/ \E p \in Procs : Populate(p)
    \/ \E p \in Procs : Finish(p)
    \/ Tick

SpecTTL == Init /\ [][NextTTL]_vars

----------------------------------------------------------------------------
(* Reads served concurrently against a healthy store                       *)

ReadRequests ==
    { Req("GET", TasksV1, <<QP("status", "pending")>>, <<"u1">>, "viewer"),
      Req("GET", Task7V1, <<>>, EmptyStr, "user") }

ReadOutputs ==
    { Output(TRUE, StatusOK, <<ChunkA, ChunkB>>),
      Output(TRUE, StatusOK, <<ChunkE>>),
      HTTPError(StatusNotFound) }

NextReads ==
    \/ \E p \in Procs, r \in ReadRequests : Start(p, r)
    \/ \E p \in Procs : CacheGet(p)
    \/ \E p \in Procs : Origin(p) /\ loc'[p].out \in ReadOutputs
    \/ \E p \in Procs : Populate(p)
    \/ \E p \in Procs : Finish(p)

SpecReads == Init /\ [][NextReads]_vars

----------------------------------------------------------------------------
(* A read and a write of one caller, concurrently, on a healthy store      *)

RaceRequests ==
    { Req("GET", TasksV1, <<QP("status", "pending")>>, <<"u1">>, "viewer"),
      Req("POST", TasksV1, <<>>, <<"u1">>, "user") }

RaceOutputs ==
    { Output(TRUE, StatusOK, <<ChunkA, ChunkB>>),
      Output(TRUE, StatusOK, <<ChunkE>>) }

NextRace ==
    \/ \E p \in Procs, r \in RaceRequests : Start(p, r)
    \/ \E p \in Procs : CacheGet(p)
    \/ \E p \in Procs : Origin(p) /\ loc'[p].out \in RaceOutputs
    \/ \E p \in Procs : Populate(p)
    \/ \E p \in Procs : InvalidateKeys(p)
    \/ \E p \in Procs : InvalidateDelete(p)
    \/ \E p \in Procs : WriteOrigin(p) /\ loc'[p].out \in RaceOutputs
    \/ \E p \in Procs : Finish(p)

SpecRace == Init /\ [][NextRace]_vars

----------------------------------------------------------------------------
(* Reads against a store that other clients of Redis write to as well      *)

\* documents json.Unmarshal does not decode into a []byte: an object, and
\* strings that are not base64 text
CorruptDocs ==
    { [kind |-> "object", text |-> <<>>],
      [kind |-> "string", text |-> <<30, 7>>],
      [kind |-> "string", text |-> <<30, 7, Pad, 1>>] }

\* another client of Redis stores a document under a key of the overlay
Corrupt(key, doc) ==
    /\ storeUp
    /\ store' = [k \in DOMAIN store \cup {key} |->
                    IF k = key THEN Entry(doc, NoExpiration, <<>>, "other")
                    ELSE store[k]]
    /\ UNCHANGED <<limit, gor, ver, mon, probe, pair, hist, storeUp, pc, req, loc>>

NextCorrupt ==
    \/ \E p \in Procs, r \in ReadRequests : StartAlone(p, r)
    \/ \E p \in Procs : CacheGet(p)
    \/ \E p \in Procs : Origin(p) /\ loc'[p].out \in ReadOutputs
    \/ \E p \in Procs : Populate(p)
    \/ \E p \in Procs : Finish(p)
    \/ \E r \in ReadRequests, doc \in CorruptDocs : Corrupt(buildCacheKey(r), doc)
    \/ StoreFail
    \/ StoreRecover

SpecCorrupt == Init /\ [][NextCorrupt]_vars

----------------------------------------------------------------------------
(* Requests served concurrently against a healthy store                    *)

ConcRequests ==
    { Req("GET", TasksV1, <<QP("status", "pending")>>, <<"u1">>, "viewer"),
      Req("GET", Task7V1, <<>>, EmptyStr, "user"),
      Req("POST", TasksV1, <<>>, <<"u1">>, "user"),
      Req("PUT", Task7V1, <<>>, EmptyStr, "admin") }

ConcOutputs ==
    { Output(TRUE, StatusOK, <<ChunkA, ChunkB>>), HTTPError(StatusNotFound) }

NextConc ==
    \/ \E p \in Procs, r \in ConcRequests : Start(p, r)
    \/ \E p \in Procs : CacheGet(p)
    \/ \E p \in Procs : Origin(p) /\ loc'[p].out \in ConcOutputs
    \/ \E p \in Procs : Populate(p)
    \/ \E p \in Procs : InvalidateKeys(p)
    \/ \E p \in Procs : InvalidateDelete(p)
    \/ \E p \in Procs : WriteOrigin(p) /\ loc'[p].out \in ConcOutputs
    \/ \E p \in Procs : Finish(p)

SpecConc == Init /\ [][NextConc]_vars

----------------------------------------------------------------------------
(* The key builder applied to every pair of reads                          *)

InitPair ==
    /\ limit = NoLimit
    /\ gor = NoGor
    /\ probe = NoProbe
    /\ hist = <<>>
    /\ ver = NoVer
    /\ mon = NoMon
    /\ store = EmptyStore
    /\ storeUp = TRUE
    /\ pc = [p \in Procs |-> "idle"]
    /\ req = [p \in Procs |-> NoReq]
    /\ loc = [p \in Procs |-> InitLoc]
    /\ pair \in {[a |-> a, b |-> b, applied |-> FALSE, keyA |-> <<>>, keyB |-> <<>>] :
                    a \in PairReads, b \in PairReads}

ApplyKeyBuilder ==
    /\ ~pair.applied
    /\ pair' = [pair EXCEPT !.applied = TRUE,
                            !.keyA = buildCacheKey(pair.a),
                            !.keyB = buildCacheKey(pair.b)]
    /\ UNCHANGED <<limit, gor, ver, mon, probe, hist, store, storeUp, pc, req, loc>>

NextPair == ApplyKeyBuilder

SpecPair == InitPair /\ [][NextPair]_vars

\* the name/value pairs of a query whose name is one of the five allow-listed
AllowListed(q) ==
    SelectSeq(q, LAMBDA e : e.name \in {"status", "limit", "page", "sort", "order"})

Occurrences(q, e) == Cardinality({i \in 1..Len(q) : q[i] = e})

\* the same pairs, each as often, in some order
IsReordering(q1, q2) ==
    /\ Len(q1) = Len(q2)
    /\ \A i \in 1..Len(q1) : Occurrences(q1, q1[i]) = Occurrences(q2, q1[i])

NoNameTwice(q) ==
    \A i, j \in 1..Len(q) : q[i].name = q[j].name => i = j

SameTarget(a, b) == a.path = b.path /\ a.userID = b.userID

\* C11 as stated: two GETs with the same path, the same X-User-ID and the
\* same allow-listed parameters with the same values, in any order, get the
\* same key.
C11_OrderIndependent ==
    (/\ pair.applied
     /\ SameTarget(pair.a, pair.b)
     /\ IsReordering(AllowListed(pair.a.query), AllowListed(pair.b.query)))
        => pair.keyA = pair.keyB

\* C11 amended: the same, for requests that supply each allow-listed
\* parameter at most once.
C11_OrderIndependentSingleValued ==
    (/\ pair.applied
     /\ SameTarget(pair.a, pair.b)
     /\ NoNameTwice(AllowListed(pair.a.query))
     /\ IsReordering(AllowListed(pair.a.query), AllowListed(pair.b.query)))
        => pair.keyA = pair.keyB

C11_Witness ==
    /\ pair.applied /\ SameTarget(pair.a, pair.b)
    /\ Len(pair.a.query) = 3 /\ NoNameTwice(pair.a.query)
    /\ pair.a.query # pair.b.query
    /\ IsReordering(pair.a.query, pair.b.query)
    /\ pair.keyA = pair.keyB

\* C12: two GETs that differ only in parameters outside the allow-list get
\* the same key; a query of such parameters only gives the key of no query.
C12_OtherParamsIrrelevant ==
    (/\ pair.applied
     /\ SameTarget(pair.a, pair.b)
     /\ AllowListed(pair.a.query) = AllowListed(pair.b.query))
        => pair.keyA = pair.keyB

C12_Witness ==
    /\ pair.applied /\ SameTarget(pair.a, pair.b)
    /\ pair.a.query = <<QP("foo", "bar")>> /\ pair.b.query = <<>>
    /\ pair.keyA = pair.keyB

\* C13: two GETs with the same path and query and different non-empty
\* X-User-ID values get different keys.
C13_ScopeSeparation ==
    (/\ pair.applied
     /\ pair.a.path = pair.b.path /\ pair.a.query = pair.b.query
     /\ pair.a.userID # EmptyStr /\ pair.b.userID # EmptyStr
     /\ pair.a.userID # pair.b.userID)
        => pair.keyA # pair.keyB

C13_Witness ==
    /\ pair.applied
    /\ pair.a.path = Task7V1 /\ pair.b.path = Task7V1
    /\ pair.a.query = pair.b.query /\ pair.a.query # <<>>
    /\ pair.a.userID = <<"u1">> /\ pair.b.userID = <<"u1", ":", "7">>
    /\ pair.keyA # pair.keyB

\* the path segment at position i, as a list of none or one
SegmentAt(r, i) ==
    IF Len(PathParts(r)) >= i THEN <<PathParts(r)[i]>> ELSE <<>>

\* name=value of the allow-listed names present, in the order of names
RECURSIVE QueryText(_, _)
QueryText(q, names) ==
    IF names = <<>> THEN <<>>
    ELSE LET rest == QueryText(q, Tail(names))
             n    == Head(names)
         IN  IF \A i \in 1..Len(q) : q[i].name # n THEN rest
             ELSE <<n, "=", QueryGet(q, n)>>
                  \o (IF rest = <<>> THEN <<>> ELSE <<"&">> \o rest)

NormalizedQuery(r) ==
    QueryText(r.query, <<"limit", "order", "page", "sort", "status">>)

ApiVersion(r) == IF SegmentAt(r, 2) = <<>> THEN <<"v1">> ELSE SegmentAt(r, 2)[1]

\* (api version, caller scope or none, resource id or none, normalized query)
KeyTuple(r) == <<ApiVersion(r), r.userID, SegmentAt(r, 4), NormalizedQuery(r)>>

\* C14: two GETs that differ in api version, caller scope, resource id or
\* normalized query never get the same key.
C14_KeyInjective ==
    (pair.applied /\ KeyTuple(pair.a) # KeyTuple(pair.b)) => pair.keyA # pair.keyB

\* version:tasks[:scope][:resourceId][:query]
ExpectedKey(r) ==
    ApiVersion(r) \o <<":", "tasks">>
    \o (IF r.userID # <<>> THEN <<":">> \o r.userID ELSE <<>>)
    \o (IF SegmentAt(r, 4) # <<>> THEN <<":">> \o SegmentAt(r, 4)[1] ELSE <<>>)
    \o (IF NormalizedQuery(r) # <<>> THEN <<":">> \o NormalizedQuery(r) ELSE <<>>)

\* C17: buildCacheKey returns version:tasks[:scope][:resourceId][:query],
\* each absent optional segment omitted.
C17_KeyFormat ==
    pair.applied =>
        (pair.keyA = ExpectedKey(pair.a) /\ pair.keyB = ExpectedKey(pair.b))

C17_Witness ==
    /\ pair.applied
    /\ pair.a.path = Task7V1 /\ pair.a.userID = <<"u1">> /\ Len(pair.a.query) = 3
    /\ pair.keyA = <<"v1", ":", "tasks", ":", "u1", ":", "7", ":",
                     "limit", "=", "1", "&", "page", "=", "1", "&",
                     "status", "=", "pending">>
    /\ pair.b.path = HealthPath /\ pair.b.userID = <<>> /\ pair.b.query = <<>>
    /\ pair.keyB = <<"v1", ":", "tasks">>

\* the patterns of a write, case by case
ExpectedPatterns(w) ==
    LET v      == ApiVersion(w)
        all    == v \o <<":", "tasks", ":", "*">>
        scoped == v \o <<":", "tasks", ":">> \o w.userID \o <<":", "*">>
        byId   == v \o <<":", "tasks", ":", "*", ":">> \o SegmentAt(w, 4)[1]
        byIdQ  == byId \o <<":", "*">>
    IN  IF w.userID # <<>> /\ SegmentAt(w, 4) # <<>> THEN <<all, scoped, byId, byIdQ>>
        ELSE IF w.userID # <<>> THEN <<all, scoped>>
        ELSE IF SegmentAt(w, 4) # <<>> THEN <<all, byId, byIdQ>>
        ELSE <<all>>

\* C18: buildCachePatterns returns, in this order, <version>:tasks:*, then
\* <version>:tasks:<scope>:* iff X-User-ID is non-empty, then
\* <version>:tasks:*:<id> and <version>:tasks:*:<id>:* iff the path has at
\* least four segments, and nothing else.
C18_PatternList ==
    probe.applied =>
        /\ probe.patterns = ExpectedPatterns(probe.w)
        /\ Len(probe.patterns) \in 1..4

C18_Witness ==
    /\ probe.applied
    /\ probe.w.path = Task7V1 /\ probe.w.userID = <<"u1">>
    /\ probe.patterns = << <<"v1", ":", "tasks", ":", "*">>,
                           <<"v1", ":", "tasks", ":", "u1", ":", "*">>,
                           <<"v1", ":", "tasks", ":", "*", ":", "7">>,
                           <<"v1", ":", "tasks", ":", "*", ":", "7", ":", "*">> >>

----------------------------------------------------------------------------
(* RedisCache used directly: Set, Get, Delete and Clear in any order       *)

MaxOps == 3

StoreKeys   == {<<"v1", ":", "tasks">>, <<"v1", ":", "tasks", ":", "7">>}
\* the values given to Set: nil (json.Marshal encodes the nil interface and
\* the nil slice alike, as null) and a payload
StoreValues == {<<>>, ChunkA \o ChunkB}
StoreTTLs   == {NoExpiration, CacheDuration}

NoResult == [err |-> FALSE, val |-> <<>>]

\* one call in the history: what was called, with what, whether it
\* returned an error, and what Get returned
Call(op, key, value, ttl, err, result) ==
    [op |-> op, key |-> key, value |-> value, ttl |-> ttl, err |-> err,
     result |-> result]

InitStore ==
    /\ limit = NoLimit
    /\ gor = NoGor
    /\ probe = NoProbe
    /\ pair = NoPair
    /\ hist = <<>>
    /\ ver = NoVer
    /\ mon = NoMon
    /\ store = EmptyStore
    /\ storeUp = TRUE
    /\ pc = [p \in Procs |-> "idle"]
    /\ req = [p \in Procs |-> NoReq]
    /\ loc = [p \in Procs |-> InitLoc]

OpSet(key, value, ttl) ==
    /\ Len(hist) < MaxOps
    /\ store' = IF storeUp THEN RedisSet(key, value, ttl, NoReq) ELSE store
    /\ hist' = Append(hist, Call("set", key, value, ttl, ~storeUp, NoResult))
    /\ UNCHANGED <<limit, gor, ver, mon, probe, pair, storeUp, pc, req, loc>>

OpGet(key) ==
    /\ Len(hist) < MaxOps
    /\ hist' = Append(hist, Call("get", key, <<>>, 0, RedisGet(key).err,
                                 RedisGet(key)))
    /\ UNCHANGED <<limit, gor, ver, mon, probe, pair, store, storeUp, pc, req, loc>>

OpDelete(key) ==
    /\ Len(hist) < MaxOps
    /\ store' = IF storeUp THEN RedisDelete(key) ELSE store
    /\ hist' = Append(hist, Call("delete", key, <<>>, 0, RedisDeleteErr(key), NoResult))
    /\ UNCHANGED <<limit, gor, ver, mon, probe, pair, storeUp, pc, req, loc>>

OpClear ==
    /\ Len(hist) < MaxOps
    /\ store' = IF storeUp THEN RedisClear ELSE store
    /\ hist' = Append(hist, Call("clear", <<>>, <<>>, 0, ~storeUp, NoResult))
    /\ UNCHANGED <<limit, gor, ver, mon, probe, pair, storeUp, pc, req, loc>>

\* the TTL of an entry that has one runs out
OpExpire(key) ==
    /\ Len(hist) < MaxOps
    /\ key \in DOMAIN store
    /\ store[key].ttl > NoExpiration
    /\ store' = RedisDelete(key)
    /\ hist' = Append(hist, Call("expire", key, <<>>, 0, FALSE, NoResult))
    /\ UNCHANGED <<limit, gor, ver, mon, probe, pair, storeUp, pc, req, loc>>

NextStore ==
    \/ \E k \in StoreKeys, v \in StoreValues, t \in StoreTTLs : OpSet(k, v, t)
    \/ \E k \in StoreKeys : OpGet(k)
    \/ \E k \in StoreKeys : OpDelete(k)
    \/ OpClear
    \/ \E k \in StoreKeys : OpExpire(k)
    \/ StoreFail
    \/ StoreRecover

SpecStore == InitStore /\ [][NextStore]_vars

\* what the calls of h that took effect leave for key: the value of the
\* last Set of it if no Delete of it, Clear or expiry of it came after,
\* else nothing
RECURSIVE LastWritten(_, _)
LastWritten(h, key) ==
    IF h = <<>> THEN DecodeErr
    ELSE LET e     == h[Len(h)]
             front == SubSeq(h, 1, Len(h) - 1)
         IN  IF e.err \/ e.op = "get" THEN LastWritten(front, key)
             ELSE IF e.op = "clear" THEN DecodeErr
             ELSE IF e.key # key THEN LastWritten(front, key)
             ELSE IF e.op = "set" THEN [err |-> FALSE, val |-> e.value]
             ELSE DecodeErr

\* C19: Get(k) on a reachable store returns the value of the most recent
\* Set(k, ...) not followed by a Delete(k), a Clear or the expiry of its
\* TTL, and an error otherwise.
C19_ReadYourLastWrite ==
    /\ \A i \in 1..Len(hist) :
          hist[i].op = "get" =>
              /\ hist[i].err <=> hist[i].result = DecodeErr
              /\ ~hist[i].err =>
                    hist[i].result = LastWritten(SubSeq(hist, 1, i - 1), hist[i].key)
    /\ storeUp => \A k \in StoreKeys : RedisGet(k) = LastWritten(hist, k)

C19_Witness ==
    /\ Len(hist) = 3
    /\ hist[1].op = "set" /\ hist[2].op = "set" /\ hist[3].op = "get"
    /\ hist[1].key = hist[3].key /\ hist[2].key = hist[3].key
    /\ hist[1].value # hist[2].value
    /\ ~hist[1].err /\ ~hist[2].err
    /\ ~hist[3].err /\ hist[3].result.val = hist[2].value

SetStep ==
    /\ Len(hist') = Len(hist) + 1
    /\ hist'[Len(hist')].op = "set"

\* C21: Set with a nil value returns an error and stores nothing under the
\* key; Set against an unreachable store returns an error.
C21_SetNilFails ==
    [][SetStep =>
        LET e == hist'[Len(hist')]
        IN  /\ e.value = <<>> => (e.err /\ store' = store)
            /\ ~storeUp => e.err]_vars

DeleteStep ==
    /\ Len(hist') = Len(hist) + 1
    /\ hist'[Len(hist')].op = "delete"

\* C20: Delete(k) on a reachable store returns no error whether or not k
\* is present, removes k, leaves every other key as it was, and changes
\* nothing when k is already absent.
C20_DeleteIdempotent ==
    [][DeleteStep =>
        LET e == hist'[Len(hist')]
        IN  storeUp =>
              /\ ~e.err
              /\ e.key \notin DOMAIN store'
              /\ DOMAIN store' = DOMAIN store \ {e.key}
              /\ \A k \in DOMAIN store' : store'[k] = store[k]
              /\ (e.key \notin DOMAIN store => store' = store)]_vars

C20_Witness ==
    /\ Len(hist) = 3
    /\ hist[1].op = "set" /\ hist[2].op = "delete" /\ hist[3].op = "delete"
    /\ hist[1].key = hist[2].key /\ hist[2].key = hist[3].key
    /\ ~hist[1].err /\ ~hist[2].err /\ ~hist[3].err
    /\ hist[3].key \notin DOMAIN store

----------------------------------------------------------------------------
(* VersionManager.GetVersion                                               *)

\* the vendor media type prefix GetVersion looks for, as one symbol
VndTask == "application/vnd.task."

\* the versions registered and the default, as in the package's tests
RegisteredVersions == {<<"1.0">>, <<"1.1">>, <<"0.9">>}
VersionDefault == <<"1.0">>

\* the list without its i-th element: append(parts[:i], parts[i+1:]...)
RemoveAt(parts, i) == SubSeq(parts, 1, i - 1) \o SubSeq(parts, i + 1, Len(parts))

\* the version and the request path after vm.GetVersion(r), for a request
\* with the given Accept header and path
GetVersion(accept, path) ==
    LET fromHeader ==
            IF \E i \in 1..Len(accept) : accept[i] = VndTask
            THEN Split(Split(accept, VndTask)[2], "+")[1]
            ELSE <<"?">>
        parts == Split(path, "/")
        hits  == {i \in 1..Len(parts) :
                     /\ HasPrefix(parts[i], <<"v">>)
                     /\ Tail(parts[i]) \in RegisteredVersions}
        first == CHOOSE i \in hits : \A j \in hits : i <= j
    IN  IF fromHeader \in RegisteredVersions
        THEN [version |-> fromHeader, path |-> path]
        ELSE IF hits # {}
        THEN [version |-> Tail(parts[first]),
              path |-> <<"/">> \o Join(RemoveAt(parts, first), <<"/">>)]
        ELSE [version |-> VersionDefault, path |-> path]

Media(v) == <<VndTask>> \o v \o <<"+", "json">>

VersionAccepts ==
    { <<>>, <<"text/html">>, Media(<<"1.1">>), Media(<<"0.9">>), Media(<<"2.0">>),
      Media(<<"v", "1.1">>), Media(<<"1.0">>) }

VersionPaths ==
    { <<"/", "api", "/", "tasks">>,
      <<"/", "v", "1.0", "/", "api", "/", "tasks">>,
      <<"/", "api", "/", "v", "0.9", "/", "tasks">>,
      <<"/", "api", "/", "tasks", "/", "v", "1.1">>,
      <<"/", "v", "2.0", "/", "api", "/", "tasks">>,
      <<"/", "v", "/", "api">>,
      <<"/", "v", "2.0", "/", "v", "1.1", "/", "v", "1.0", "/", "tasks">>,
      <<"/", "1.0", "/", "api">>,
      <<"/">> }

InitVersion ==
    /\ mon = NoMon
    /\ limit = NoLimit
    /\ gor = NoGor
    /\ probe = NoProbe
    /\ pair = NoPair
    /\ hist = <<>>
    /\ store = EmptyStore
    /\ storeUp = TRUE
    /\ pc = [p \in Procs |-> "idle"]
    /\ req = [p \in Procs |-> NoReq]
    /\ loc = [p \in Procs |-> InitLoc]
    /\ ver \in {[accept |-> a, path |-> p, applied |-> FALSE,
                 version |-> <<>>, newPath |-> <<>>] :
                    a \in VersionAccepts, p \in VersionPaths}

ApplyGetVersion ==
    /\ ~ver.applied
    /\ ver' = [ver EXCEPT !.applied = TRUE,
                          !.version = GetVersion(ver.accept, ver.path).version,
                          !.newPath = GetVersion(ver.accept, ver.path).path]
    /\ UNCHANGED <<limit, gor, mon, probe, pair, hist, store, storeUp, pc, req, loc>>

NextVersion == ApplyGetVersion

SpecVersion == InitVersion /\ [][NextVersion]_vars

\* the version an Accept header names: what stands between the vendor
\* prefix and the next '+'
RECURSIVE UpTo(_, _)
UpTo(s, c) ==
    IF s = <<>> \/ Head(s) = c THEN <<>> ELSE <<Head(s)>> \o UpTo(Tail(s), c)

RECURSIVE AfterFirst(_, _)
AfterFirst(s, c) ==
    IF s = <<>> THEN <<>>
    ELSE IF Head(s) = c THEN Tail(s) ELSE AfterFirst(Tail(s), c)

NamedInAccept(accept) == UpTo(AfterFirst(accept, VndTask), "+")

\* the segments of a path: what stands between its slashes
RECURSIVE Segments(_)
Segments(path) ==
    IF path = <<>> THEN <<>>
    ELSE IF Head(path) = "/" THEN Segments(Tail(path))
    ELSE <<UpTo(path, "/")>> \o Segments(AfterFirst(path, "/"))

IsVersionSegment(seg) ==
    Len(seg) > 1 /\ seg[1] = "v" /\ Tail(seg) \in RegisteredVersions

\* a path with the given segments
RECURSIVE PathOf(_)
PathOf(segs) ==
    IF segs = <<>> THEN <<>> ELSE <<"/">> \o Head(segs) \o PathOf(Tail(segs))

\* the segments without the first version segment
RECURSIVE DropVersion(_)
DropVersion(segs) ==
    IF segs = <<>> THEN <<>>
    ELSE IF IsVersionSegment(Head(segs)) THEN Tail(segs)
    ELSE <<Head(segs)>> \o DropVersion(Tail(segs))

\* C23: GetVersion returns the registered version the Accept header names
\* if any, otherwise the registered version of the first v-prefixed path
\* segment, otherwise the default; the path loses that segment when the
\* version comes from it and is unchanged in every other case.
C23_VersionResolution ==
    ver.applied =>
        LET segs == Segments(ver.path)
        IN  IF NamedInAccept(ver.accept) \in RegisteredVersions
            THEN /\ ver.version = NamedInAccept(ver.accept)
                 /\ ver.newPath = ver.path
            ELSE IF \E i \in 1..Len(segs) : IsVersionSegment(segs[i])
            THEN /\ <<"v">> \o ver.version \in {segs[i] : i \in 1..Len(segs)}
                 /\ ver.version \in RegisteredVersions
                 /\ ver.newPath = PathOf(DropVersion(segs))
            ELSE /\ ver.version = VersionDefault
                 /\ ver.newPath = ver.path

----------------------------------------------------------------------------
(* ServiceMonitor                                                          *)

\* the check interval main gives the monitor, in minutes
CheckInterval == 1

\* the clock stops here
MaxNow == 3

At(t) == [zero |-> FALSE, at |-> t]

ServiceNames == {"cache", "db"}
Statuses == {"UP", "DOWN"}
MetricNames == {"latency"}
PutOutcomes == {"ok", "fail"}

\* the states a caller passes: unstamped, or stamped with the starting time
ServiceStates ==
    [name : ServiceNames \cup {""}, status : Statuses,
     timestamp : {ZeroTime, At(0)},
     metrics : SUBSET MetricNames]

\* sm.states[state.Name] = &state
PutState(states, state) ==
    [n \in DOMAIN states \cup {state.name} |->
        IF n = state.name THEN [status |-> state.status, at |-> state.timestamp.at]
        ELSE states[n]]

\* the calls of PutMetricData one UpdateServiceState makes and the error it
\* returns: the status metric first, then each custom metric until one fails
\* or the five seconds are over
PublishMetrics(state, outs) ==
    IF outs.status = "fail" THEN [trace |-> <<"put">>, err |-> "publish"]
    ELSE IF state.metrics = {} THEN [trace |-> <<"put">>, err |-> "none"]
    ELSE IF outs.custom = "timeout" THEN [trace |-> <<"put">>, err |-> "timeout"]
    ELSE IF outs.custom = "fail" THEN [trace |-> <<"put", "put">>, err |-> "publish"]
    ELSE [trace |-> <<"put", "put">>, err |-> "none"]

\* a monitor that keeps the state only once its metrics are published
UpdateServiceState_PublishFirst(state, metricsOn, outs) ==
    LET stamped == IF state.timestamp.zero
                   THEN [state EXCEPT !.timestamp = At(mon.now)] ELSE state
        pub     == PublishMetrics(stamped, outs)
    IN  /\ mon' = IF state.name = ""
                  THEN [mon EXCEPT !.last = "update", !.arg = state,
                                   !.err = "name", !.trace = <<>>,
                                   !.alarms = {}, !.failed = {}]
                  ELSE IF ~metricsOn
                  THEN [mon EXCEPT !.last = "update", !.arg = state,
                                   !.states = PutState(@, stamped),
                                   !.err = "none", !.trace = <<"store">>,
                                   !.alarms = {}, !.failed = {}]
                  ELSE [mon EXCEPT !.last = "update", !.arg = state,
                                   !.states = IF pub.err = "none"
                                              THEN PutState(@, stamped) ELSE @,
                                   !.err = pub.err,
                                   !.trace = IF pub.err = "none"
                                             THEN pub.trace \o <<"store">>
                                             ELSE pub.trace,
                                   !.alarms = {}, !.failed = {}]
        /\ UNCHANGED <<limit, gor, ver, probe, pair, hist, store, storeUp, pc, req, loc>>

UpdateServiceState(state, metricsOn, outs) ==
    LET stamped == IF state.timestamp.zero
                   THEN [state EXCEPT !.timestamp = At(mon.now)] ELSE state
        pub     == PublishMetrics(stamped, outs)
    IN  /\ mon' = IF state.name = ""
                  THEN [mon EXCEPT !.last = "update", !.arg = state,
                                   !.err = "name", !.trace = <<>>,
                                   !.alarms = {}, !.failed = {}]
                  ELSE IF ~metricsOn
                  THEN [mon EXCEPT !.last = "update", !.arg = state,
                                   !.states = PutState(@, stamped),
                                   !.err = "none", !.trace = <<"store">>,
                                   !.alarms = {}, !.failed = {}]
                  ELSE [mon EXCEPT !.last = "update", !.arg = state,
                                   !.states = PutState(@, stamped),
                                   !.err = pub.err,
                                   !.trace = <<"store">> \o pub.trace,
                                   !.alarms = {}, !.failed = {}]
        /\ UNCHANGED <<limit, gor, ver, probe, pair, hist, store, storeUp, pc, req, loc>>

AlarmName(name) == <<name, "-StaleState">>

\* time.Since(state.Timestamp) > sm.checkInterval*2
IsStale(st) == mon.now - st.at > CheckInterval * 2

\* one run of the check; failing is the set of alarms CreateAlarm rejects
checkAndUpdateStates(failing) ==
    LET stale == {n \in DOMAIN mon.states : IsStale(mon.states[n])}
    IN  /\ mon' = IF ~mon.alarmsEnabled
                  THEN [mon EXCEPT !.last = "check", !.arg = NoState,
                           !.err = "none", !.trace = <<>>,
                           !.alarms = {}, !.failed = {}]
                  ELSE [mon EXCEPT !.last = "check", !.arg = NoState,
                           !.err = "none", !.trace = <<>>,
                           !.alarms = {AlarmName(n) : n \in stale},
                           !.failed = {AlarmName(n) : n \in stale \cap failing}]
        /\ UNCHANGED <<limit, gor, ver, probe, pair, hist, store, storeUp, pc, req, loc>>

\* time passes between two calls
Elapse ==
    /\ mon.now < MaxNow
    /\ mon' = [mon EXCEPT !.now = @ + 1, !.last = "elapse", !.arg = NoState,
                          !.err = "none", !.trace = <<>>,
                          !.alarms = {}, !.failed = {}]
    /\ UNCHANGED <<limit, gor, ver, probe, pair, hist, store, storeUp, pc, req, loc>>

\* what the calls of PutMetricData within one update answer; calls that are
\* not made answer nothing
PutResults == [status : PutOutcomes, custom : PutOutcomes \cup {"timeout"}]
AllPut == [status |-> "ok", custom |-> "ok"]

\* NewServiceMonitor reads ENABLE_ALARMS once
InitMonitor ==
    /\ ver = NoVer
    /\ limit = NoLimit
    /\ gor = NoGor
    /\ probe = NoProbe
    /\ pair = NoPair
    /\ hist = <<>>
    /\ store = EmptyStore
    /\ storeUp = TRUE
    /\ pc = [p \in Procs |-> "idle"]
    /\ req = [p \in Procs |-> NoReq]
    /\ loc = [p \in Procs |-> InitLoc]
    /\ mon \in {[NoMon EXCEPT !.alarmsEnabled = b] : b \in BOOLEAN}

NextMonitor ==
    \/ \E state \in ServiceStates, metricsOn \in BOOLEAN, outs \in PutResults :
           /\ ~(metricsOn /\ state.name # "") => outs = AllPut
           /\ (state.metrics = {} \/ outs.status = "fail") => outs.custom = "ok"
           /\ UpdateServiceState(state, metricsOn, outs)
    \/ \E failing \in SUBSET ServiceNames : checkAndUpdateStates(failing)
    \/ Elapse

SpecMonitor == InitMonitor /\ [][NextMonitor]_vars

\* the state UpdateServiceState keeps for its argument: the argument, stamped
\* with the current time when it carries no timestamp
StoredFor(state, now) ==
    [status |-> state.status,
     at |-> IF state.timestamp.zero THEN now ELSE state.timestamp.at]

\* C24: a call of UpdateServiceState with a non-empty name stores the state
\* under that name, replacing what was there and leaving the other names
\* alone, first of all its effects and whatever publishing does; with an
\* empty name it returns an error and the stored states are unchanged.
C24_StoreBeforePublish ==
    [][mon'.last = "update" =>
        IF mon'.arg.name = ""
        THEN /\ mon'.err # "none"
             /\ mon'.states = mon.states
             /\ mon'.trace = <<>>
        ELSE /\ DOMAIN mon'.states = DOMAIN mon.states \cup {mon'.arg.name}
             /\ mon'.states[mon'.arg.name] = StoredFor(mon'.arg, mon.now)
             /\ \A n \in DOMAIN mon.states \ {mon'.arg.name} :
                    mon'.states[n] = mon.states[n]
             /\ Head(mon'.trace) = "store"]_vars

\* a state is stored although publishing its second metric failed
C24_Witness ==
    /\ mon.last = "update"
    /\ mon.arg.name = "db"
    /\ mon.err = "publish"
    /\ mon.trace = <<"store", "put", "put">>
    /\ "db" \in DOMAIN mon.states
    /\ mon.states["db"] = [status |-> "DOWN", at |-> 2]
    /\ "cache" \in DOMAIN mon.states

\* C25: a run of checkAndUpdateStates has called CreateAlarm with
\* <service>-StaleState for exactly the stored states older than twice the
\* check interval, whether or not some of those calls failed.
C25_StaleAlarms ==
    mon.last = "check" =>
        /\ mon.alarms = {AlarmName(n) : n \in {x \in DOMAIN mon.states :
                            mon.now - mon.states[x].at > 2 * CheckInterval}}
        /\ mon.failed \subseteq mon.alarms

----------------------------------------------------------------------------
(* RateLimiter.RateLimit, one step per Redis call                          *)

\* rl.maxRequests
MaxRequests == 2

\* the requests the clients send in all
MaxSent == MaxRequests + 3

StatusTooManyRequests == 429

RemoteAddrs == {"10.0.0.1", "10.0.0.2"}
LimitCalls == {"h1", "h2"}
Lives == 1..MaxSent

\* val > int64(rl.maxRequests), with one request more let through
Exceeds_OneMore(val) == val > MaxRequests + 1

\* val > int64(rl.maxRequests)
Exceeds(val) == val > MaxRequests

InitLimit ==
    /\ gor = NoGor
    /\ ver = NoVer
    /\ mon = NoMon
    /\ probe = NoProbe
    /\ pair = NoPair
    /\ hist = <<>>
    /\ store = EmptyStore
    /\ storeUp = TRUE
    /\ pc = [p \in Procs |-> "idle"]
    /\ req = [p \in Procs |-> NoReq]
    /\ loc = [p \in Procs |-> InitLoc]
    /\ limit = [keys |-> [a \in {} |-> 0], up |-> TRUE, sent |-> 0,
                calls |-> [c \in LimitCalls |-> NoCall],
                lives |-> [a \in RemoteAddrs |-> 0],
                passed |-> [a \in RemoteAddrs |-> [l \in Lives |-> 0]]]

LimitFrame ==
    UNCHANGED <<gor, ver, mon, probe, pair, hist, store, storeUp, pc, req, loc>>

\* a request from addr enters the handler: key := "ratelimit:" + r.RemoteAddr
LimitStart(c, addr) ==
    /\ limit.calls[c].pc = "idle"
    /\ limit.sent < MaxSent
    /\ limit' = [limit EXCEPT !.sent = @ + 1,
                              !.calls[c] = [NoCall EXCEPT !.pc = "incr", !.addr = addr]]
    /\ LimitFrame

\* the counter after INCR: Redis creates the key at 1, without expiry, when
\* it is absent
Incremented(keys, addr, life) ==
    [a \in DOMAIN keys \cup {addr} |->
        IF a # addr THEN keys[a]
        ELSE IF addr \in DOMAIN keys THEN [keys[a] EXCEPT !.val = @ + 1]
        ELSE [val |-> 1, expires |-> FALSE, life |-> life]]

\* rl.client.Incr(r.Context(), key).Result() and the error branch
LimitIncr(c) ==
    LET call == limit.calls[c]
        a    == call.addr
        born == a \notin DOMAIN limit.keys
        keys == Incremented(limit.keys, a, limit.lives[a] + 1)
    IN  /\ call.pc = "incr"
        /\ limit' =
             IF ~limit.up
             THEN [limit EXCEPT !.calls[c].pc = "done",
                                !.calls[c].status = StatusInternalServerError]
             ELSE [limit EXCEPT !.keys = keys,
                                !.lives[a] = IF born THEN @ + 1 ELSE @,
                                !.calls[c].val = keys[a].val,
                                !.calls[c].life = keys[a].life,
                                !.calls[c].pc = IF keys[a].val = 1 THEN "expire"
                                                ELSE "check"]
        /\ LimitFrame

\* rl.client.Expire(r.Context(), key, rl.window), its result unused
LimitExpire(c) ==
    LET a == limit.calls[c].addr
    IN  /\ limit.calls[c].pc = "expire"
        /\ limit' = IF limit.up /\ a \in DOMAIN limit.keys
                    THEN [limit EXCEPT !.keys[a].expires = TRUE,
                                       !.calls[c].pc = "check"]
                    ELSE [limit EXCEPT !.calls[c].pc = "check"]
        /\ LimitFrame

\* the comparison with the limit, then 429 or next.ServeHTTP(w, r)
LimitCheck(c) ==
    LET call == limit.calls[c]
    IN  /\ call.pc = "check"
        /\ limit' = IF Exceeds(call.val)
                    THEN [limit EXCEPT !.calls[c].pc = "done",
                                       !.calls[c].status = StatusTooManyRequests]
                    ELSE [limit EXCEPT !.calls[c].pc = "done",
                                       !.calls[c].status = StatusOK,
                                       !.calls[c].nNext = @ + 1,
                                       !.passed[call.addr][call.life] = @ + 1]
        /\ LimitFrame

LimitFinish(c) ==
    /\ limit.calls[c].pc = "done"
    /\ limit' = [limit EXCEPT !.calls[c] = NoCall]
    /\ LimitFrame

\* a window has passed since EXPIRE: Redis drops the key
KeyExpires(addr) ==
    /\ addr \in DOMAIN limit.keys
    /\ limit.keys[addr].expires
    /\ limit' = [limit EXCEPT !.keys = [a \in DOMAIN limit.keys \ {addr} |-> limit.keys[a]]]
    /\ LimitFrame

\* Redis becomes unreachable for the limiter / reachable again
LimitDown ==
    /\ limit.up
    /\ limit' = [limit EXCEPT !.up = FALSE]
    /\ LimitFrame

LimitUp ==
    /\ ~limit.up
    /\ limit' = [limit EXCEPT !.up = TRUE]
    /\ LimitFrame

NextLimit ==
    \/ \E c \in LimitCalls, addr \in RemoteAddrs : LimitStart(c, addr)
    \/ \E c \in LimitCalls : LimitIncr(c)
    \/ \E c \in LimitCalls : LimitExpire(c)
    \/ \E c \in LimitCalls : LimitCheck(c)
    \/ \E c \in LimitCalls : LimitFinish(c)
    \/ \E addr \in RemoteAddrs : KeyExpires(addr)
    \/ LimitDown
    \/ LimitUp

SpecLimit == InitLimit /\ [][NextLimit]_vars

\* C36: of the requests counted in one lifetime of an address's counter at
\* most maxRequests have been passed to the next handler; a request answered
\* 429 or 500 has not reached it, and a request whose INCR failed is
\* answered 500.
C36_RateLimitBound ==
    /\ \A a \in RemoteAddrs, l \in Lives : limit.passed[a][l] <= MaxRequests
    /\ \A c \in LimitCalls :
          LET call == limit.calls[c]
          IN  /\ call.status \in {StatusTooManyRequests, StatusInternalServerError}
                    => call.nNext = 0
              /\ (call.pc = "done" /\ call.val = 0)
                    => call.status = StatusInternalServerError
              /\ (call.pc = "done" /\ call.val > MaxRequests)
                    => call.status = StatusTooManyRequests

\* a request is answered 429 while another, counted in the same lifetime
\* and within the limit, is still on its way to the handler
C36_Witness ==
    \E c, d \in LimitCalls :
        /\ limit.calls[c].pc = "done"
        /\ limit.calls[c].status = StatusTooManyRequests
        /\ limit.calls[d].pc = "check"
        /\ limit.calls[d].addr = limit.calls[c].addr
        /\ limit.calls[d].life = limit.calls[c].life
        /\ limit.calls[d].val = MaxRequests
        /\ limit.passed[limit.calls[c].addr][limit.calls[c].life] = MaxRequests - 1

\* C37: a counter in Redis has an expiry, or the request whose INCR created
\* it is about to give it one.
C37_WindowCloses ==
    \A a \in DOMAIN limit.keys :
        \/ limit.keys[a].expires
        \/ \E c \in LimitCalls :
              limit.calls[c].pc = "expire" /\ limit.calls[c].addr = a

----------------------------------------------------------------------------
(* The goroutines around the ServiceMonitor's states map: the one main     *)
(* starts with go serviceMonitor.Start, and the health requests that call  *)
(* UpdateServiceState.  The monitor has no lock.                           *)

Ticker == "ticker"
Updaters == {"health1", "health2"}

InitGor ==
    /\ limit = NoLimit
    /\ ver = NoVer
    /\ probe = NoProbe
    /\ pair = NoPair
    /\ hist = <<>>
    /\ store = EmptyStore
    /\ storeUp = TRUE
    /\ pc = [p \in Procs |-> "idle"]
    /\ req = [p \in Procs |-> NoReq]
    /\ loc = [p \in Procs |-> InitLoc]
    /\ mon \in {[NoMon EXCEPT !.alarmsEnabled = b] : b \in BOOLEAN}
    /\ gor = [at |-> [g \in Updaters \cup {Ticker} |->
                         IF g = Ticker THEN "wait" ELSE "idle"],
              arg |-> [g \in Updaters |-> ""],
              left |-> {}, stopped |-> FALSE, crashed |-> FALSE]

GorFrame ==
    UNCHANGED <<limit, ver, probe, pair, hist, store, storeUp, pc, req, loc>>

\* another goroutine is at an access of the map that conflicts with g's:
\* a write against any access, a read against a write
Conflicts(g) ==
    IF g = Ticker
    THEN \E u \in Updaters : gor.at[u] = "store"
    ELSE \/ \E u \in Updaters \ {g} : gor.at[u] = "store"
         \/ gor.at[Ticker] = "range"

\* what an access of the map can do to the process: nothing when no other
\* access conflicts with it; otherwise the runtime may stop the process
\* ("concurrent map read and map write", "concurrent map writes")
Outcomes(g) == IF Conflicts(g) THEN BOOLEAN ELSE {FALSE}

\* a health request calls UpdateServiceState with a named state
UpdateEnter(g, name) ==
    /\ ~gor.crashed
    /\ gor.at[g] = "idle"
    /\ gor' = [gor EXCEPT !.at[g] = "store", !.arg[g] = name]
    /\ mon' = mon
    /\ GorFrame

\* sm.states[state.Name] = &state
UpdateWrite(g) ==
    /\ ~gor.crashed
    /\ gor.at[g] = "store"
    /\ \E crash \in Outcomes(g) :
          gor' = [gor EXCEPT !.at[g] = "publish", !.crashed = crash]
    /\ mon' = [mon EXCEPT !.states =
                  PutState(@, [name |-> gor.arg[g], status |-> "UP",
                               timestamp |-> At(mon.now), metrics |-> {}])]
    /\ GorFrame

\* the rest of UpdateServiceState, which does not touch the map
UpdateReturn(g) ==
    /\ ~gor.crashed
    /\ gor.at[g] = "publish"
    /\ gor' = [gor EXCEPT !.at[g] = "idle", !.arg[g] = ""]
    /\ mon' = mon
    /\ GorFrame

\* case <-ticker.C: checkAndUpdateStates begins; with alarms enabled it
\* ranges over the map
TickerFires ==
    /\ ~gor.crashed
    /\ gor.at[Ticker] = "wait"
    /\ gor' = IF mon.alarmsEnabled
              THEN [gor EXCEPT !.at[Ticker] = "range", !.left = DOMAIN mon.states]
              ELSE gor
    /\ mon' = mon
    /\ GorFrame

\* the range loop reads the next entry, or ends
RangeStates ==
    /\ ~gor.crashed
    /\ gor.at[Ticker] = "range"
    /\ \/ /\ gor.left = {}
          /\ gor' = [gor EXCEPT !.at[Ticker] = "wait"]
       \/ \E n \in gor.left, crash \in Outcomes(Ticker) :
             gor' = [gor EXCEPT !.left = @ \ {n}, !.crashed = crash]
    /\ mon' = mon
    /\ GorFrame

\* Stop: close(sm.stopCh)
MonitorStop ==
    /\ ~gor.crashed
    /\ ~gor.stopped
    /\ gor' = [gor EXCEPT !.stopped = TRUE]
    /\ mon' = mon
    /\ GorFrame

\* case <-sm.stopCh: Start returns
StartReturns ==
    /\ ~gor.crashed
    /\ gor.stopped
    /\ gor.at[Ticker] = "wait"
    /\ gor' = [gor EXCEPT !.at[Ticker] = "returned"]
    /\ mon' = mon
    /\ GorFrame

NextGor ==
    \/ \E g \in Updaters, name \in ServiceNames : UpdateEnter(g, name)
    \/ \E g \in Updaters : UpdateWrite(g)
    \/ \E g \in Updaters : UpdateReturn(g)
    \/ TickerFires
    \/ RangeStates
    \/ MonitorStop
    \/ StartReturns

SpecGor == InitGor /\ [][NextGor]_vars

\* C38: no goroutine is at a write of the states map while another is at a
\* read or a write of it, so the runtime never stops the process for it;
\* and Start has returned only after Stop, and then no check is running.
C38_MapRaceFree ==
    /\ \A g \in Updaters : gor.at[g] = "store" => ~Conflicts(g)
    /\ ~gor.crashed
    /\ gor.at[Ticker] = "returned" => (gor.stopped /\ gor.left = {})

----------------------------------------------------------------------------
(* Properties of the request handling                                      *)

Done(p)     == pc[p] = "done"
DoneGet(p)  == Done(p) /\ req[p].method = "GET"
DoneMiss(p) == DoneGet(p) /\ ~loc[p].hit
ReqVersion(p) == PathVersion(PathParts(req[p]))

Is2xx(status) == status \in 200..299

\* the status and body a client gets from a handler behaving as out
SentStatus(out) == IF out.wroteHeader THEN out.status ELSE StatusOK
SentBody(out)   == Flatten(out.chunks)

\* the client has received exactly what the origin handler sent
PassedThrough(p) ==
    /\ loc[p].nOrigin = 1
    /\ loc[p].io.cliStatus = SentStatus(loc[p].out)
    /\ loc[p].io.cliBody = SentBody(loc[p].out)
    /\ loc[p].io.hdr = {}

\* C2: with requests served one at a time and a healthy store, a GET on the
\* tasks collection is never answered from an entry that was stored before a
\* write request on the same version completed.
C2_FreshAfterWrite ==
    \A p \in Procs :
        (DoneGet(p) /\ IsCollectionPath(req[p]) /\ loc[p].hit)
            => ReqVersion(p) \notin loc[p].srcStale

\* C3: the cache lookup runs behind authentication: a GET that
\* AuthMiddleware rejects with 401 or 403 is never answered with a cached
\* body.
C3_NoCachedBodyForRejected ==
    \A p \in Procs :
        (DoneGet(p) /\ loc[p].hit) => AuthMiddleware(req[p]) = 0

\* C4: a GET all of whose store calls (Get, and Set if issued) failed has
\* invoked the origin handler exactly once and the client has received
\* exactly the handler's status and body.
C4_FailOpenReads ==
    \A p \in Procs :
        (DoneGet(p) /\ loc[p].nErr = loc[p].nGet + Len(loc[p].sets))
            => PassedThrough(p)

C4_Witness ==
    \E p \in Procs :
        /\ DoneGet(p) /\ loc[p].nErr = 2 /\ loc[p].nGet = 1 /\ Len(loc[p].sets) = 1
        /\ loc[p].io.cliStatus = StatusOK /\ loc[p].io.cliBody # <<>>

\* C5: a completed non-GET request has invoked the origin handler exactly
\* once and the client has received the handler's response as it is,
\* whichever of its Keys and Delete calls failed.
C5_FailOpenWrites ==
    \A p \in Procs :
        (Done(p) /\ req[p].method # "GET") => PassedThrough(p)

C5_Witness ==
    \E p \in Procs :
        /\ Done(p) /\ req[p].method # "GET"
        /\ loc[p].nErr > 0 /\ loc[p].nErr < loc[p].nKeys + loc[p].nDel
        /\ loc[p].nDel > 0
        /\ loc[p].io.cliStatus = StatusCreated

\* C6: the step that follows the origin handler of a GET whose response
\* status is not 2xx issues no Set and leaves the store as it is.
C6_NoCacheNonSuccess ==
    [][\A p \in Procs :
          (/\ req[p].method = "GET"
           /\ pc[p] = "populate" /\ pc'[p] = "done"
           /\ ~Is2xx(loc[p].io.cliStatus))
              => (store' = store /\ loc'[p].sets = <<>>)]_vars

C6_Witness ==
    \E p \in Procs :
        /\ DoneMiss(p) /\ loc[p].io.cliStatus = StatusNotFound
        /\ loc[p].sets = <<>> /\ storeUp

\* C7: a request whose method is not GET issues no Set and no Get, whatever
\* status its handler sent, and every entry in the store was put there by a
\* GET request.
C7_NoCacheWrites ==
    /\ \A p \in Procs :
          (pc[p] # "idle" /\ req[p].method # "GET")
              => (loc[p].sets = <<>> /\ loc[p].nGet = 0)
    /\ \A k \in DOMAIN store : store[k].by = "GET"

C7_Witness ==
    \E p \in Procs :
        /\ Done(p) /\ req[p].method # "GET" /\ Is2xx(loc[p].io.cliStatus)
        /\ storeUp /\ DOMAIN store # {}

\* the one Set a populating GET issues
PopulateSet(p) ==
    <<[key |-> buildCacheKey(req[p]), value |-> SentBody(loc[p].out),
       ttl |-> CacheDuration]>>

C9_HitReplay ==
    \A p \in Procs :
        loc[p].hit =>
            /\ Done(p)
            /\ loc[p].io.hdr = {<<"Content-Type", "application/json">>,
                                <<"X-Cache", "HIT">>}
            /\ loc[p].io.cliBody = loc[p].cachedResponse
            /\ loc[p].nOrigin = 0
            /\ loc[p].sets = <<>>
            /\ loc[p].nDel = 0

C9_Witness ==
    \E p \in Procs : loc[p].hit /\ Done(p) /\ Len(loc[p].io.cliBody) = 2

\* C10: a GET answered from the entry a populate stored receives exactly the
\* body that populate was given, byte for byte.
C10_RoundTrip ==
    \A p \in Procs :
        (DoneGet(p) /\ loc[p].hit) => loc[p].io.cliBody = loc[p].srcBody

C10_Witness ==
    \E p \in Procs :
        /\ DoneGet(p) /\ loc[p].hit
        /\ Len(loc[p].srcBody) = 3 /\ loc[p].io.cliBody = loc[p].srcBody


C16_SeenEntriesDeleted ==
    \A p \in Procs :
        (/\ req[p].method # "GET"
         /\ pc[p] \in {"worigin", "done"}
         /\ loc[p].nErr = 0)
            => \A k \in DOMAIN store : p \notin store[k].seenBy

\* a write deleted two entries while another request was in flight, and a
\* read has stored one of them anew since
C16_Witness ==
    \E p \in Procs :
        /\ req[p].method # "GET" /\ pc[p] = "worigin"
        /\ loc[p].nErr = 0 /\ loc[p].nDel >= 2
        /\ DOMAIN store # {}
        /\ \A k \in DOMAIN store : p \notin store[k].seenBy


\* the request in slot p is not a GET and is being served
InWrite(p) == pc[p] # "idle" /\ req[p].method # "GET"

\* C28: a request whose method is not GET never takes the read path; its
\* origin handler is not invoked before every pattern has been enumerated
\* and every enumerated key has been given to Delete, it is invoked exactly
\* once, and no Keys or Delete call follows it.
C28_WriteOrdering ==
    /\ [](\A p \in Procs :
            InWrite(p) =>
                /\ pc[p] \in {"keys", "delete", "worigin", "done"}
                /\ pc[p] \in {"keys", "delete"} => loc[p].nOrigin = 0
                /\ pc[p] = "worigin" =>
                      /\ loc[p].nOrigin = 0
                      /\ loc[p].nKeys = Len(Patterns(p))
                      /\ loc[p].pending = {}
                /\ pc[p] = "done" => loc[p].nOrigin = 1)
    /\ [][\A p \in Procs :
            (InWrite(p) /\ loc[p].nOrigin = 1 /\ pc'[p] # "idle")
                => (loc'[p].nKeys = loc[p].nKeys /\ loc'[p].nDel = loc[p].nDel)]_vars

C28_Witness ==
    \E p \in Procs :
        /\ Done(p) /\ req[p].method = "PATCH"
        /\ loc[p].nOrigin = 1 /\ loc[p].nKeys = 4 /\ loc[p].nDel > 0
        /\ loc[p].nGet = 0

\* C29: by the time the invalidation of a write request has returned, every
\* pattern has been enumerated and every key an enumeration returned has
\* been given to Delete, whichever of these calls failed; and a key is
\* absent once its Delete has succeeded.
C29_BestEffortPerItem ==
    /\ [](\A p \in Procs :
            (InWrite(p) /\ pc[p] \in {"worigin", "done"}) =>
                /\ loc[p].nKeys = Len(Patterns(p))
                /\ loc[p].nDel = loc[p].nEnum)
    /\ [][\A p \in Procs :
            (/\ pc[p] = "delete"
             /\ loc'[p].nDel = loc[p].nDel + 1
             /\ loc'[p].nErr = loc[p].nErr)
                => \A k \in loc[p].pending \ loc'[p].pending :
                      k \notin DOMAIN store']_vars

\* a Keys call and a Delete call failed, later ones were still made and a
\* later Delete removed its key
C29_Witness ==
    \E p \in Procs :
        /\ InWrite(p) /\ pc[p] = "worigin"
        /\ loc[p].nErr >= 2 /\ loc[p].nErr < loc[p].nKeys + loc[p].nDel
        /\ loc[p].nDel >= 2 /\ loc[p].nDel = loc[p].nErr
        /\ loc[p].nKeys = Len(Patterns(p))
        /\ storeUp /\ DOMAIN store = {}

\* C30: a cache hit is answered with status 200, whatever status the
\* response the entry was populated from had.
C30_ReplayStatusOK ==
    \A p \in Procs : loc[p].hit => loc[p].io.cliStatus = StatusOK

\* the hit replays the body that only the 201 response of the handler has
C30_Witness ==
    \E p \in Procs :
        /\ loc[p].hit /\ Done(p)
        /\ loc[p].srcBody = ChunkA /\ loc[p].io.cliBody = ChunkA
        /\ loc[p].io.cliStatus = StatusOK


\* C22: every Set the overlay issues carries the configured duration, and
\* with no write request at all no entry is in the store later than that
\* duration after the Set that stored it.
C22_FixedTTL ==
    /\ \A p \in Procs : \A i \in 1..Len(loc[p].sets) :
          loc[p].sets[i].ttl = CacheDuration
    /\ \A k \in DOMAIN store :
          /\ store[k].ttl = CacheDuration
          /\ store[k].age * TickLen < CacheDuration

\* an entry in its last tick, and a GET that missed on a key after the
\* entry stored under it had expired
C22_Witness ==
    /\ \E k \in DOMAIN store : store[k].age = TicksPerTTL - 1
    /\ \E p \in Procs :
          /\ pc[p] = "origin" /\ loc[p].nGet = 1 /\ loc[p].nErr = 0
          /\ buildCacheKey(req[p]) \notin DOMAIN store


\* C27: with GETs in flight concurrently on a healthy store, every GET that
\* missed has invoked the origin handler itself, once, its client has
\* received that handler's response, and it has issued its own Set if the
\* response was one to cache; the Set of a GET leaves its own body under
\* the key, whatever was there.
C27_NoCoalescing ==
    /\ [](\A p \in Procs :
            DoneMiss(p) =>
                /\ PassedThrough(p)
                /\ loc[p].sets = IF ShouldCache(loc[p].io.recStatus)
                                 THEN PopulateSet(p) ELSE <<>>)
    /\ [][\A p \in Procs :
            (/\ pc[p] = "populate" /\ pc'[p] = "done"
             /\ ShouldCache(loc[p].io.recStatus))
                => LET key == buildCacheKey(req[p])
                   IN  /\ key \in DOMAIN store'
                       /\ store'[key].body = loc[p].io.recBuf]_vars

\* two GETs of one key both missed, both ran the handler and both stored
\* their body; the entry is the body of one, the other client got another
C27_Witness ==
    \E p, q \in Procs :
        /\ p # q /\ DoneMiss(p) /\ DoneMiss(q)
        /\ req[p] = req[q]
        /\ loc[p].nOrigin = 1 /\ loc[q].nOrigin = 1
        /\ Len(loc[p].sets) = 1 /\ Len(loc[q].sets) = 1
        /\ loc[p].io.cliBody # loc[q].io.cliBody
        /\ store[buildCacheKey(req[p])].body = loc[q].io.cliBody


\* C26: with a read and a write in flight concurrently on a healthy store,
\* an entry holds a body from before a completed write only if its Set
\* landed after a write had begun to enumerate or had run its handler, and
\* a GET that hits such an entry is answered with that body without the
\* handler; the witness is the interleaving in which this happens to a GET
\* issued after the write has completed.
C26_StaleOnlyByRace ==
    /\ \A k \in DOMAIN store : store[k].staleFor # {} => store[k].late
    /\ \A p \in Procs :
          (DoneGet(p) /\ loc[p].hit /\ ReqVersion(p) \in loc[p].srcStale) =>
              /\ loc[p].io.cliBody = loc[p].srcBody
              /\ loc[p].nOrigin = 0

\* q missed and ran the handler, the write ran its invalidation and its
\* handler and has left, q's Set landed, and p, which took the slot of the
\* write, is served q's body from the cache
C26_Witness ==
    \E p, q \in Procs :
        /\ p # q
        /\ \A w \in Procs : ~InWrite(w)
        /\ DoneMiss(q) /\ Len(loc[q].sets) = 1 /\ loc[q].preWrite # {}
        /\ DoneGet(p) /\ loc[p].hit /\ req[p] = req[q]
        /\ ReqVersion(p) \in loc[p].srcStale
        /\ loc[p].io.cliBody = loc[q].io.cliBody
        /\ loc[p].nOrigin = 0


\* C34: when the origin handler of a GET that missed has returned, the
\* client has the status and the body it would have had from that handler
\* called with its own ResponseWriter, chunk after chunk in the order
\* written, and the recorder's buffer holds all the chunks in that order.
C34_MissPassThrough ==
    \A p \in Procs :
        (req[p].method = "GET" /\ ~loc[p].hit /\ pc[p] \in {"populate", "done"})
            => LET direct == ServeHTTP(NoIO, loc[p].out, FALSE)
               IN  /\ loc[p].io.cliStatus = direct.cliStatus
                   /\ loc[p].io.cliBody = direct.cliBody
                   /\ loc[p].io.hdr = direct.hdr
                   /\ loc[p].io.recBuf = Flatten(loc[p].out.chunks)

\* a miss whose handler answered 404 with a body
C34_Witness ==
    \E p \in Procs :
        /\ DoneMiss(p)
        /\ loc[p].out = HTTPError(StatusNotFound)
        /\ loc[p].io.cliStatus = StatusNotFound
        /\ loc[p].io.cliBody = ChunkE
        /\ loc[p].io.recBuf = ChunkE

\* C35: a GET that missed and whose origin handler wrote a body without
\* calling WriteHeader leaves 200 as the recorder's status and is cached as
\* with an explicit 200: one Set of the body under the request's key.
C35_ImplicitStatus ==
    \A p \in Procs :
        (DoneMiss(p) /\ ~loc[p].out.wroteHeader /\ loc[p].out.chunks # <<>>)
            => /\ loc[p].io.cliStatus = StatusOK
               /\ loc[p].io.recStatus = StatusOK
               /\ loc[p].sets = PopulateSet(p)

\* C32: a GET calls Get at most once and Set at most once, and neither Keys
\* nor Delete; a write calls Keys once for each pattern it has gone through,
\* failed calls included, Delete at most once for each key a Keys call
\* returned, and neither Get nor Set.
C32_SingleAttempt ==
    \A p \in Procs :
        /\ (pc[p] # "idle" /\ req[p].method = "GET") =>
              /\ loc[p].nGet = (IF pc[p] = "get" THEN 0 ELSE 1)
              /\ Len(loc[p].sets) <= 1
              /\ loc[p].nKeys = 0 /\ loc[p].nDel = 0
        /\ (pc[p] # "idle" /\ req[p].method # "GET") =>
              /\ loc[p].nGet = 0 /\ loc[p].sets = <<>>
              /\ pc[p] = "keys" => loc[p].nKeys = loc[p].pidx - 1
              /\ pc[p] = "delete" => loc[p].nKeys = loc[p].pidx
              /\ pc[p] \in {"worigin", "done"} => loc[p].nKeys = Len(Patterns(p))
              /\ loc[p].nDel <= loc[p].nEnum
              /\ loc[p].nErr <= loc[p].nKeys + loc[p].nDel

\* a write that went through all its patterns although store calls failed
C32_Witness ==
    \E p \in Procs :
        /\ Done(p) /\ req[p].method = "PUT"
        /\ loc[p].nErr >= 2
        /\ loc[p].nDel >= 1
        /\ loc[p].nKeys = Len(Patterns(p))

\* the key is in the store after the step with a value or a TTL it did not
\* have before
Written(k) ==
    /\ k \in DOMAIN store'
    /\ k \in DOMAIN store =>
          (store'[k].data # store[k].data \/ store'[k].ttl # store[k].ttl)

Removed(k) == k \in DOMAIN store /\ k \notin DOMAIN store'

\* the step is one of request p's
StepOf(p) == pc'[p] # pc[p] \/ loc'[p].nDel # loc[p].nDel

MatchesSome(patterns, k) ==
    \E i \in 1..Len(patterns) : GlobMatch(patterns[i], k)

\* C33: a step writes an entry only as the populate of a GET that missed
\* and whose handler answered 200 or 201, under that GET's key; a step of a
\* request removes an entry only if a Keys call of that write returned its
\* key for one of the write's patterns (any other removal is the store's
\* expiry); a write changes no key that matches none of its patterns, and
\* a GET removes nothing and writes nothing but its own key.
C33_EntryLifecycle ==
    [][/\ \A k \in DOMAIN store' :
             Written(k) =>
                \E p \in Procs :
                    /\ req[p].method = "GET" /\ ~loc[p].hit
                    /\ pc[p] = "populate" /\ pc'[p] = "done"
                    /\ k = buildCacheKey(req[p])
                    /\ SentStatus(loc[p].out) \in {StatusOK, StatusCreated}
       /\ \A k \in DOMAIN store :
             (Removed(k) /\ \E p \in Procs : StepOf(p)) =>
                \E p \in Procs :
                    /\ StepOf(p) /\ req[p].method # "GET"
                    /\ pc[p] = "delete" /\ k \in loc[p].pending
                    /\ MatchesSome(Patterns(p), k)
       /\ \A p \in Procs :
             (StepOf(p) /\ pc[p] # "idle" /\ req[p].method # "GET") =>
                \A k \in DOMAIN store \cup DOMAIN store' :
                    ~MatchesSome(Patterns(p), k) => (~Written(k) /\ ~Removed(k))
       /\ \A p \in Procs :
             (StepOf(p) /\ pc[p] # "idle" /\ req[p].method = "GET") =>
                \A k \in DOMAIN store \cup DOMAIN store' :
                    /\ ~Removed(k)
                    /\ Written(k) => k = buildCacheKey(req[p])]_vars

\* a write has deleted an entry and left another, which none of its
\* patterns matches, in the store
C33_Witness ==
    \E p \in Procs :
        /\ Done(p) /\ req[p].method = "POST"
        /\ loc[p].nDel = 1 /\ loc[p].nErr = 0 /\ loc[p].nEnum = 1
        /\ \E k \in DOMAIN store : ~MatchesSome(Patterns(p), k)

\* C31: a GET whose Get came upon a document that does not decode goes on
\* as a miss: the origin handler runs and the client has its response; no
\* step of that GET removes an entry, the Get itself leaves the store as it
\* is, and a populate whose Set reaches the store puts the new body under
\* the key whatever was there.
C31_CorruptIsMiss ==
    /\ [](\A p \in Procs :
            loc[p].found = "corrupt" =>
               /\ ~loc[p].hit
               /\ pc[p] \in {"origin", "populate", "done"}
               /\ pc[p] \in {"populate", "done"} =>
                     /\ loc[p].nOrigin = 1
                     /\ loc[p].io.cliStatus = SentStatus(loc[p].out)
                     /\ loc[p].io.cliBody = SentBody(loc[p].out)
                     /\ loc[p].io.hdr = {})
    /\ [][\A p \in Procs :
            (pc'[p] # pc[p] /\ loc'[p].found = "corrupt") =>
               /\ DOMAIN store \subseteq DOMAIN store'
               /\ pc[p] = "get" => store' = store
               /\ (pc[p] = "populate" /\ Reaches(p) /\ ShouldCache(loc[p].io.recStatus))
                     => store'[buildCacheKey(req[p])].data
                            = JSONMarshalBytes(loc[p].io.recBuf)]_vars

\* a GET came upon an undecodable document, answered from the handler, and
\* its populate replaced the document
C31_Witness ==
    \E p \in Procs :
        /\ DoneMiss(p) /\ loc[p].found = "corrupt"
        /\ loc[p].io.cliBody = ChunkA \o ChunkB
        /\ buildCacheKey(req[p]) \in DOMAIN store
        /\ store[buildCacheKey(req[p])].data = JSONMarshalBytes(ChunkA \o ChunkB)

\* a GET came upon an undecodable document and its handler answered 404:
\* the document is still there
C31_WitnessKept ==
    \E p \in Procs :
        /\ DoneMiss(p) /\ loc[p].found = "corrupt"
        /\ loc[p].io.cliStatus = StatusNotFound
        /\ buildCacheKey(req[p]) \in DOMAIN store
        /\ store[buildCacheKey(req[p])].data \in CorruptDocs

====
